---- MODULE Spec2Model ----
(***************************************************************************)
(* BiasGuard: the fairness metrics calculator                              *)
(* (src/azure_ml_fairness_engine.py), the bias lexicon scanner             *)
(* (src/azure_language_service.py, taxonomy in src/config.py), and the     *)
(* paths that bring a hiring table to the calculator: the Hiring Fairness  *)
(* Analysis page (src/app.py) and the command line pipeline (src/main.py). *)
(*                                                                         *)
(* Selection rates are IEEE-754 binary64 values, as pandas/numpy compute   *)
(* them: the arithmetic below is round-to-nearest-even on a 53 bit         *)
(* significand kept in two limbs, so that a rate such as 3/5 and a         *)
(* threshold such as 0.8 have the values the program sees.                 *)
(***************************************************************************)
EXTENDS Integers, Sequences, FiniteSets

VARIABLES
    fair_pc,      \* position of the fairness analyzer: "new", "loaded", "done"
    data,         \* self.data: the rows of the CSV, as a count per kind of row
    fair_report,  \* what compute_fairness_metrics returned (None before)
    fair_error,   \* the exception the analyzer raised (None when none)
    lang_pc,           \* position of the language detector: "new", "ready", "failed"
    bias_keywords,     \* self.bias_keywords: the taxonomy of the detector
    replacements,      \* self.replacements: the replacement table of the detector
    job_title,         \* the title of the job at hand
    job_description,   \* the description of the job at hand
    sentiment_request, \* the text last sent to the sentiment classifier
    lang_result,       \* what analyze_single_job returned for the job (None before)
    lang_error,        \* the exception the detector raised (None when none)
    hiring_csv,         \* the file data/hiring_data.csv on disk (NoFile when absent)
    uploaded_csv,       \* the file data/uploaded_hiring_data.csv on disk
    uploader,           \* the file held by the upload widget of the page
    data_option,        \* the data source chosen on the page
    uploaded_data_path, \* st.session_state.uploaded_data_path
    fairness_results,   \* st.session_state.fairness_results
    app_status,         \* what the last run of the page reported
    data_path,          \* the path the last analyzer of the page or the CLI was given
    page,                    \* the page chosen in the sidebar of the web application
    dashboard,               \* what the Research Dashboard shows (None when not shown)
    language_detector,       \* st.session_state.language_detector
    language_detector_error, \* st.session_state.language_detector_error
    language_results,        \* st.session_state.language_results
    detector_constructions,  \* calls of AzureLanguageBiasDetector() in the session
    job_status,              \* what the last run of the job description page reported
    cli_pc,               \* position of main(): "idle", "checked", ..., "exited"
    job_descriptions,     \* the file data/job_descriptions.json (NoFile when absent)
    fairness_comparison,  \* what run_fairness_analysis() returned to main()
    cli_language_results, \* what run_language_analysis() returned to main()
    visualizations,       \* calls of generate_visualizations() in the run
    exit_status           \* the exit status of main() (None while it runs)

fair_vars == <<fair_pc, data, fair_report, fair_error>>
lang_vars == <<lang_pc, bias_keywords, replacements, job_title, job_description,
               sentiment_request, lang_result, lang_error>>
app_vars == <<hiring_csv, uploaded_csv, uploader, data_option, uploaded_data_path,
              fairness_results, app_status, data_path>>
web_vars == <<page, dashboard, language_detector, language_detector_error,
              language_results, detector_constructions, job_status>>
cli_vars == <<cli_pc, job_descriptions, fairness_comparison, cli_language_results,
              visualizations, exit_status>>
vars == <<fair_vars, lang_vars, app_vars, web_vars, cli_vars>>

\* Python's None, for a variable that otherwise holds a string and for one that
\* otherwise holds a dictionary.
None == "None"
NoDict == [none |-> TRUE]

(***************************************************************************)
(* Bounds of the model.                                                    *)
(***************************************************************************)
\* Largest number of rows of one kind (gender, hired) for male and female.
MaxGroupRows == 3
\* Largest number of rows of one kind whose gender is neither male nor female.
MaxOtherRows == 1

(***************************************************************************)
(* binary64 arithmetic.  A finite non-zero value is s * (hi*2^26 + lo) *   *)
(* 2^e with 2^52 <= hi*2^26 + lo < 2^53.  The exponents met here are far   *)
(* from the subnormal and overflow ranges, which are not modelled.         *)
(***************************************************************************)
LimbBase == 2^26
\* 2^52 as a two-limb number.
MantMin == <<LimbBase, 0>>
\* 2^53 as a two-limb number.
MantTop == <<2 * LimbBase, 0>>

L_Geq(x, y) == x[1] > y[1] \/ (x[1] = y[1] /\ x[2] >= y[2])
L_Sub(x, y) ==
    IF x[2] >= y[2] THEN <<x[1] - y[1], x[2] - y[2]>>
    ELSE <<x[1] - y[1] - 1, x[2] + LimbBase - y[2]>>
L_Dbl(x) == <<2 * x[1] + ((2 * x[2]) \div LimbBase), (2 * x[2]) % LimbBase>>
L_Inc(x) == IF x[2] + 1 = LimbBase THEN <<x[1] + 1, 0>> ELSE <<x[1], x[2] + 1>>
L_Odd(x) == x[2] % 2 = 1
L_Add(x, y) ==
    <<x[1] + y[1] + ((x[2] + y[2]) \div LimbBase), (x[2] + y[2]) % LimbBase>>
\* x * 2^k for 0 <= k <= 26, and for any k >= 0.
L_ShlLimb(x, k) ==
    <<x[1] * 2^k + (x[2] \div 2^(26 - k)), (x[2] % 2^(26 - k)) * 2^k>>
L_Shl(x, k) ==
    IF k <= 26 THEN L_ShlLimb(x, k) ELSE L_ShlLimb(L_ShlLimb(x, 26), k - 26)
\* floor(x / 2^k) for 0 <= k <= 26, and whether a set bit was shifted out.
L_ShrLimb(x, k) ==
    <<x[1] \div 2^k, (x[2] \div 2^k) + (x[1] % 2^k) * 2^(26 - k)>>
L_LostLimb(x, k) == x[2] % 2^k # 0
L_IsZero(x) == x[1] = 0 /\ x[2] = 0

F_NaN == [k |-> "nan"]
F_Inf(s) == [k |-> "inf", s |-> s]
F_Zero == [k |-> "zero"]
F_Num(s, m, e) == [k |-> "num", s |-> s, hi |-> m[1], lo |-> m[2], e |-> e]
F_Mant(x) == <<x.hi, x.lo>>

\* floor(log2 n) for n >= 1.
RECURSIVE Log2(_)
Log2(n) == IF n <= 1 THEN 0 ELSE 1 + Log2(n \div 2)

\* float(n) for an integer 0 <= n < 2^26: exact.
F_FromInt(n) ==
    IF n = 0 THEN F_Zero
    ELSE F_Num(1, <<n * 2^(26 - Log2(n)), 0>>, Log2(n) - 52)

\* Round the quotient q (53 bits) with remainder r of a division by b.
F_RoundDiv(s, q, r, b, e) ==
    LET twice == L_Dbl(r)
        up == IF twice = b THEN L_Odd(q) ELSE L_Geq(twice, b)
        q1 == IF up THEN L_Inc(q) ELSE q
    IN IF q1 = MantTop THEN F_Num(s, MantMin, e + 1) ELSE F_Num(s, q1, e)

\* The next n quotient bits of r / b (r < b), as <<quotient, remainder>>: one
\* shift-and-subtract step for n = 1, else the first half of the bits followed by
\* the second half.
RECURSIVE F_DivBits(_, _, _)
F_DivBits(r, b, n) ==
    IF n = 0 THEN <<(<<0, 0>>), r>>
    ELSE IF n = 1
    THEN LET r2 == L_Dbl(r)
         IN IF L_Geq(r2, b) THEN <<(<<0, 1>>), L_Sub(r2, b)>> ELSE <<(<<0, 0>>), r2>>
    ELSE LET n1 == n \div 2
             first == F_DivBits(r, b, n1)
             second == F_DivBits(first[2], b, n - n1)
         IN <<L_Add(L_Shl(first[1], n - n1), second[1]), second[2]>>

\* x / y in binary64 (numpy.float64.__truediv__: no exception, a division by
\* zero gives inf or nan with a warning only).
F_Div(x, y) ==
    CASE x.k = "nan" \/ y.k = "nan" -> F_NaN
      [] x.k = "inf" /\ y.k = "inf" -> F_NaN
      [] x.k = "inf" -> F_Inf(IF y.k = "num" THEN x.s * y.s ELSE x.s)
      [] y.k = "inf" -> F_Zero
      [] x.k = "zero" /\ y.k = "zero" -> F_NaN
      [] x.k = "zero" -> F_Zero
      [] y.k = "zero" -> F_Inf(x.s)
      [] OTHER ->
            LET a == F_Mant(x)
                b == F_Mant(y)
                s == x.s * y.s
            IN IF L_Geq(a, b)
               THEN LET qr == F_DivBits(L_Sub(a, b), b, 52)
                    IN F_RoundDiv(s, L_Add(MantMin, qr[1]), qr[2], b, x.e - y.e - 52)
               ELSE LET qr == F_DivBits(a, b, 53)
                    IN F_RoundDiv(s, qr[1], qr[2], b, x.e - y.e - 53)

\* x < y (False when either is nan).
F_MagLt(x, y) ==
    \* for finite non-zero magnitudes
    x.e < y.e \/ (x.e = y.e /\ ~L_Geq(F_Mant(x), F_Mant(y)))
F_Sign(x) == IF x.k = "zero" THEN 0 ELSE x.s
F_Lt(x, y) ==
    CASE x.k = "nan" \/ y.k = "nan" -> FALSE
      [] F_Sign(x) # F_Sign(y) -> F_Sign(x) < F_Sign(y)
      [] x.k = "zero" -> FALSE
      [] x.k = "inf" /\ y.k = "inf" -> FALSE
      [] x.k = "inf" -> x.s = -1
      [] y.k = "inf" -> y.s = 1
      [] OTHER -> IF x.s = 1 THEN F_MagLt(x, y) ELSE F_MagLt(y, x)
F_Eq(x, y) == x.k # "nan" /\ y.k # "nan" /\ x = y
F_Gt(x, y) == F_Lt(y, x)
F_Geq(x, y) == F_Gt(x, y) \/ F_Eq(x, y)

\* x shifted right by d bits, the bits shifted out OR-ed into the lowest bit
\* (the sticky bit); x has at most 56 bits.
L_SetLow(x, sticky) == IF sticky /\ ~L_Odd(x) THEN L_Inc(x) ELSE x
L_ShrSticky(x, d) ==
    IF d <= 26 THEN L_SetLow(L_ShrLimb(x, d), L_LostLimb(x, d))
    ELSE IF d <= 52
    THEN LET y == L_ShrLimb(x, 26)
         IN L_SetLow(L_ShrLimb(y, d - 26), L_LostLimb(x, 26) \/ L_LostLimb(y, d - 26))
    ELSE IF d <= 56
    THEN LET y == L_ShrLimb(L_ShrLimb(x, 26), 26)
         IN L_SetLow(L_ShrLimb(y, d - 52), ~L_IsZero(x))
    ELSE L_SetLow(<<0, 0>>, ~L_IsZero(x))

\* The position of the highest set bit of v > 0.
L_TopBit(v) == IF v[1] > 0 THEN 26 + Log2(v[1]) ELSE Log2(v[2])

\* Shift the difference v (0 < v < 2^56) left until its top bit is bit 55.
F_Normalize(v, e) ==
    LET k == 55 - L_TopBit(v) IN <<L_Shl(v, k), e - k>>

\* Round a normalized 56 bit value v * 2^e to 53 bits, to nearest, ties to even.
F_RoundGuard(s, v, e) ==
    LET g == v[2] % 8
        q == L_ShrLimb(v, 3)
        up == g > 4 \/ (g = 4 /\ L_Odd(q))
        q1 == IF up THEN L_Inc(q) ELSE q
    IN IF q1 = MantTop THEN F_Num(s, MantMin, e + 4) ELSE F_Num(s, q1, e + 3)

\* big - small for finite magnitudes big > small > 0, with sign s.
F_MagSub(s, big, small) ==
    LET b == L_Shl(F_Mant(big), 3)
        m == L_ShrSticky(L_Shl(F_Mant(small), 3), big.e - small.e)
        n == F_Normalize(L_Sub(b, m), big.e - 3)
    IN F_RoundGuard(s, n[1], n[2])

\* x - y in binary64, for the operands the program subtracts: selection rates,
\* which are nan or finite and >= 0.
F_Sub(x, y) ==
    CASE x.k = "nan" \/ y.k = "nan" -> F_NaN
      [] y.k = "zero" -> x
      [] x.k = "zero" -> [y EXCEPT !.s = -1]
      [] x = y -> F_Zero
      [] F_MagLt(x, y) -> F_MagSub(-1, y, x)
      [] OTHER -> F_MagSub(1, x, y)

\* Python's builtin min(a, b) and max(a, b): the first argument unless the
\* second compares strictly below (above) it; a nan never does.
PyMinFirst(a, b) == a
PyMin(a, b) == IF F_Lt(b, a) THEN b ELSE a
PyMax(a, b) == IF F_Gt(b, a) THEN b ELSE a

(***************************************************************************)
(* The hiring data.  A DataFrame is modelled by the number of rows of each *)
(* kind (gender, hired); the calculator reads no other column.             *)
(***************************************************************************)
\* The values the gender column and the hired column of a CSV file may hold.
Genders == {"male", "female", "other", "Male", "Female", "MALE"}
HiredValues == {0, 1, 2}
RowKinds == [gender : Genders, hired : HiredValues]
MaxRows(kind) ==
    IF kind.gender \in {"male", "female"} THEN MaxGroupRows ELSE MaxOtherRows
\* The table that has counts[r] rows of each kind r counts names, and no others.
Table(counts) == [r \in RowKinds |-> IF r \in DOMAIN counts THEN counts[r] ELSE 0]
\* The table with m1 hired and m0 rejected rows of gender gm, f1 and f0 of gf.
GroupTable(gm, m1, m0, gf, f1, f0) ==
    [r \in RowKinds |->
        IF r.gender = gm /\ r.hired = 1 THEN m1
        ELSE IF r.gender = gm /\ r.hired = 0 THEN m0
        ELSE IF r.gender = gf /\ r.hired = 1 THEN f1
        ELSE IF r.gender = gf /\ r.hired = 0 THEN f0
        ELSE 0]
\* The small tables: rows of male, female and one other gender, hired 0 or 1.
SmallKinds == [gender : {"male", "female", "other"}, hired : {0, 1}]
SmallDatasets ==
    {Table(d) : d \in {c \in [SmallKinds -> 0 .. MaxGroupRows] :
                          \A r \in SmallKinds : c[r] <= MaxRows(r)}}
\* The table of the worked example with selection rates 0.70 and 0.50.
WorkedExampleDatasets == {GroupTable("male", 7, 3, "female", 1, 1)}
Datasets == SmallDatasets \cup WorkedExampleDatasets

\* A filter that keeps every row that is not of the other group.
FilterGenderLoose(df, g) ==
    [r \in RowKinds |-> IF r.gender = g \/ r.gender \notin {"male", "female"} THEN df[r] ELSE 0]
\* df[df["gender"] == g]: the rows whose gender is exactly g.
FilterGender(df, g) == [r \in RowKinds |-> IF r.gender = g THEN df[r] ELSE 0]

RECURSIVE SumOver(_, _)
SumOver(f, S) ==
    IF S = {} THEN 0
    ELSE LET r == CHOOSE x \in S : TRUE IN f[r] + SumOver(f, S \ {r})
RowCount(df) == SumOver(df, RowKinds)
HiredSum(df) == SumOver([r \in RowKinds |-> r.hired * df[r]], RowKinds)

\* Series.mean() of the hired column: nan for no rows, else sum / count in
\* binary64.
HiredMean(df) ==
    IF RowCount(df) = 0 THEN F_NaN
    ELSE F_Div(F_FromInt(HiredSum(df)), F_FromInt(RowCount(df)))

\* A threshold of 0.7.
EEOC_THRESHOLD_LOW == F_Div(F_FromInt(7), F_FromInt(10))
\* The literal 0.8: the binary64 value nearest to 8/10.
EEOC_THRESHOLD == F_Div(F_FromInt(8), F_FromInt(10))

\* The calculator with the difference reported as an absolute value.
compute_fairness_metrics_abs(df) ==
    LET male_rate == HiredMean(FilterGender(df, "male"))
        female_rate == HiredMean(FilterGender(df, "female"))
        diff == F_Sub(male_rate, female_rate)
        eeoc_ratio == F_Div(PyMin(male_rate, female_rate), PyMax(male_rate, female_rate))
    IN [male_selection_rate |-> male_rate,
        female_selection_rate |-> female_rate,
        demographic_parity_difference |-> IF diff.k = "num" THEN [diff EXCEPT !.s = 1] ELSE diff,
        eeoc_80_percent_ratio |-> eeoc_ratio,
        passes_eeoc_test |-> F_Geq(eeoc_ratio, EEOC_THRESHOLD)]
\* The calculator with a strict comparison against the threshold.
compute_fairness_metrics_strict(df) ==
    LET male_rate == HiredMean(FilterGender(df, "male"))
        female_rate == HiredMean(FilterGender(df, "female"))
        eeoc_ratio == F_Div(PyMin(male_rate, female_rate), PyMax(male_rate, female_rate))
    IN [male_selection_rate |-> male_rate,
        female_selection_rate |-> female_rate,
        demographic_parity_difference |-> F_Sub(male_rate, female_rate),
        eeoc_80_percent_ratio |-> eeoc_ratio,
        passes_eeoc_test |-> F_Gt(eeoc_ratio, EEOC_THRESHOLD)]

compute_fairness_metrics(df) ==
    LET male == FilterGender(df, "male")
        female == FilterGender(df, "female")
        male_rate == HiredMean(male)
        female_rate == HiredMean(female)
        demographic_parity_diff == F_Sub(male_rate, female_rate)
        eeoc_ratio == F_Div(PyMin(male_rate, female_rate), PyMax(male_rate, female_rate))
    IN [male_selection_rate |-> male_rate,
        female_selection_rate |-> female_rate,
        demographic_parity_difference |-> demographic_parity_diff,
        eeoc_80_percent_ratio |-> eeoc_ratio,
        passes_eeoc_test |-> F_Geq(eeoc_ratio, EEOC_THRESHOLD)]

(***************************************************************************)
(* The fairness analyzer as a state machine.                               *)
(***************************************************************************)
NoRows == [r \in RowKinds |-> 0]

FairInit ==
    /\ fair_pc = "new"
    /\ data = NoRows
    /\ fair_report = NoDict
    /\ fair_error = None

\* AzureMLFairnessAnalyzer(data_path): self.data = pd.read_csv(data_path), then
\* the workspace client is created and the workspace fetched; the constructor
\* raises when the workspace cannot be reached.
AnalyzerInit ==
    /\ fair_pc = "new"
    /\ \E d \in Datasets : data' = d
    /\ \E connected \in BOOLEAN :
          IF connected
          THEN fair_pc' = "loaded" /\ fair_error' = None
          ELSE fair_pc' = "failed" /\ fair_error' = "AzureError"
    /\ UNCHANGED fair_report
    /\ UNCHANGED lang_vars
    /\ UNCHANGED app_vars
    /\ UNCHANGED web_vars
    /\ UNCHANGED cli_vars

\* analyzer.compute_fairness_metrics(): none of its statements raises for a
\* table with a gender column and a numeric hired column, so it always returns
\* the dictionary.
ComputeFairnessMetrics ==
    /\ fair_pc = "loaded"
    /\ fair_report' = compute_fairness_metrics(data)
    /\ fair_pc' = "done"
    /\ UNCHANGED <<data, fair_error>>
    /\ UNCHANGED lang_vars
    /\ UNCHANGED app_vars
    /\ UNCHANGED web_vars
    /\ UNCHANGED cli_vars

\* The analyzer object goes out of scope; the next run constructs a new one.
AnalyzerDrop ==
    /\ fair_pc \in {"done", "failed"}
    /\ fair_pc' = "new"
    /\ data' = NoRows
    /\ fair_report' = NoDict
    /\ fair_error' = None
    /\ UNCHANGED lang_vars
    /\ UNCHANGED app_vars
    /\ UNCHANGED web_vars
    /\ UNCHANGED cli_vars

NextFair == AnalyzerInit \/ ComputeFairnessMetrics \/ AnalyzerDrop

(***************************************************************************)
(* The bias lexicon scanner.  A Python string is the sequence of its       *)
(* characters, each character a one-character string.                      *)
(***************************************************************************)
LowerLetters == <<"a", "b", "c", "d", "e", "f", "g", "h", "i", "j", "k", "l", "m", "n", "o", "p", "q", "r", "s", "t", "u", "v", "w", "x", "y", "z">>
UpperLetters == <<"A", "B", "C", "D", "E", "F", "G", "H", "I", "J", "K", "L", "M", "N", "O", "P", "Q", "R", "S", "T", "U", "V", "W", "X", "Y", "Z">>
OtherChars == {" ", ".", "-"}
LetterIndex(letters, c) == CHOOSE i \in 1 .. Len(letters) : letters[i] = c
IsUpper(c) == \E i \in 1 .. Len(UpperLetters) : UpperLetters[i] = c
IsLower(c) == \E i \in 1 .. Len(LowerLetters) : LowerLetters[i] = c
Chars == {LowerLetters[i] : i \in 1 .. 26} \cup {UpperLetters[i] : i \in 1 .. 26} \cup OtherChars

\* str.lower() on one character and on a string: an upper-case letter becomes
\* its lower-case letter, every other character is kept.
CharLowerIdentity == [c \in Chars |-> c]
CharLower ==
    [c \in Chars |-> IF IsUpper(c) THEN LowerLetters[LetterIndex(UpperLetters, c)] ELSE c]
StrLower(str) == [i \in 1 .. Len(str) |-> CharLower[str[i]]]

\* A match that must begin and end at a word boundary.
IsLetter(c) == IsUpper(c) \/ IsLower(c)
ContainsWord(text, sub) ==
    \E i \in 0 .. (Len(text) - Len(sub)) :
        /\ \A j \in 1 .. Len(sub) : text[i + j] = sub[j]
        /\ i > 0 => ~IsLetter(text[i])
        /\ i + Len(sub) < Len(text) => ~IsLetter(text[i + Len(sub) + 1])
\* Python's `sub in text` for strings: sub occurs at some offset of text.
Contains(text, sub) ==
    \E i \in 0 .. (Len(text) - Len(sub)) :
        \A j \in 1 .. Len(sub) : text[i + j] = sub[j]

\* Config.BIAS_KEYWORDS (src/config.py 125-164), in the order of the dictionary.
\* A string is the sequence of its characters.
BIAS_KEYWORDS ==
    <<
      [category |-> "age",
       terms |-> <<
            <<"y", "o", "u", "n", "g">>,
            <<"o", "l", "d">>,
            <<"e", "n", "e", "r", "g", "e", "t", "i", "c">>,
            <<"m", "a", "t", "u", "r", "e">>,
            <<"r", "e", "c", "e", "n", "t", " ", "g", "r", "a", "d", "u", "a", "t", "e">>,
            <<"d", "i", "g", "i", "t", "a", "l", " ", "n", "a", "t", "i", "v", "e">>,
            <<"e", "x", "p", "e", "r", "i", "e", "n", "c", "e", "d">>,
            <<"s", "e", "n", "i", "o", "r">>,
            <<"j", "u", "n", "i", "o", "r">>,
            <<"f", "r", "e", "s", "h">>,
            <<"s", "e", "a", "s", "o", "n", "e", "d">>>>,
       severity |-> "high",
       description |-> "Age-related discriminatory language"],
      [category |-> "gender",
       terms |-> <<
            <<"r", "o", "c", "k", "s", "t", "a", "r">>,
            <<"n", "i", "n", "j", "a">>,
            <<"g", "u", "r", "u">>,
            <<"a", "g", "g", "r", "e", "s", "s", "i", "v", "e">>,
            <<"d", "o", "m", "i", "n", "a", "n", "t">>,
            <<"c", "o", "m", "p", "e", "t", "i", "t", "i", "v", "e">>,
            <<"s", "t", "r", "o", "n", "g">>,
            <<"a", "m", "b", "i", "t", "i", "o", "u", "s">>,
            <<"a", "s", "s", "e", "r", "t", "i", "v", "e">>,
            <<"c", "h", "a", "i", "r", "m", "a", "n">>>>,
       severity |-> "high",
       description |-> "Gender-coded language (masculine-coded terms)"],
      [category |-> "origin",
       terms |-> <<
            <<"n", "a", "t", "i", "v", "e">>,
            <<"l", "o", "c", "a", "l">>,
            <<"d", "o", "m", "e", "s", "t", "i", "c">>,
            <<"f", "o", "r", "e", "i", "g", "n">>,
            <<"i", "m", "m", "i", "g", "r", "a", "n", "t">>>>,
       severity |-> "medium",
       description |-> "National origin bias"],
      [category |-> "physical",
       terms |-> <<
            <<"f", "i", "t">>,
            <<"a", "t", "h", "l", "e", "t", "i", "c">>,
            <<"h", "e", "a", "l", "t", "h", "y">>,
            <<"a", "c", "t", "i", "v", "e">>,
            <<"a", "b", "l", "e", "-", "b", "o", "d", "i", "e", "d">>>>,
       severity |-> "medium",
       description |-> "Physical ability bias (ableist language)"],
      [category |-> "cultural",
       terms |-> <<
            <<"c", "u", "l", "t", "u", "r", "e", " ", "f", "i", "t">>,
            <<"t", "e", "a", "m", " ", "p", "l", "a", "y", "e", "r">>,
            <<"w", "o", "r", "k", " ", "h", "a", "r", "d", " ", "p", "l", "a", "y", " ", "h", "a", "r", "d">>,
            <<"f", "a", "m", "i", "l", "y", "-", "l", "i", "k", "e">>,
            <<"f", "a", "s", "t", "-", "p", "a", "c", "e", "d">>>>,
       severity |-> "low",
       description |-> "Cultural fit bias (can exclude diverse candidates)"]
    >>

\* Config.REPLACEMENTS (src/config.py 171-184): key and value of each item.
REPLACEMENTS ==
    {
      [key |-> <<"y", "o", "u", "n", "g">>, value |-> "adaptable"],
      [key |-> <<"o", "l", "d">>, value |-> "experienced"],
      [key |-> <<"e", "n", "e", "r", "g", "e", "t", "i", "c">>, value |-> "motivated"],
      [key |-> <<"r", "o", "c", "k", "s", "t", "a", "r">>, value |-> "skilled professional"],
      [key |-> <<"n", "i", "n", "j", "a">>, value |-> "expert"],
      [key |-> <<"g", "u", "r", "u">>, value |-> "specialist"],
      [key |-> <<"a", "g", "g", "r", "e", "s", "s", "i", "v", "e">>, value |-> "proactive"],
      [key |-> <<"d", "o", "m", "i", "n", "a", "n", "t">>, value |-> "confident"],
      [key |-> <<"c", "o", "m", "p", "e", "t", "i", "t", "i", "v", "e">>, value |-> "driven"],
      [key |-> <<"n", "a", "t", "i", "v", "e">>, value |-> "fluent"],
      [key |-> <<"r", "e", "c", "e", "n", "t", " ", "g", "r", "a", "d", "u", "a", "t", "e">>, value |-> "early-career professional"],
      [key |-> <<"d", "i", "g", "i", "t", "a", "l", " ", "n", "a", "t", "i", "v", "e">>, value |-> "technology-proficient"],
      [key |-> <<"c", "u", "l", "t", "u", "r", "e", " ", "f", "i", "t">>, value |-> "values alignment"]
    }

\* A taxonomy edited by the operator: a term written in mixed case, and a
\* category whose severity is none of high, medium, low.
CUSTOM_KEYWORDS ==
    <<
      [category |-> "gender",
       terms |-> <<
            <<"R", "o", "c", "k", "S", "t", "a", "r">>,
            <<"n", "i", "n", "j", "a">>>>,
       severity |-> "high",
       description |-> "Gender-coded language (masculine-coded terms)"],
      [category |-> "jargon",
       terms |-> <<
            <<"g", "u", "r", "u">>,
            <<"t", "e", "a", "m">>>>,
       severity |-> "critical",
       description |-> "Insider jargon"]
    >>
Taxonomies == {BIAS_KEYWORDS, CUSTOM_KEYWORDS}

FALLBACK_SUGGESTION == "Use a more inclusive alternative"
\* A lookup that ignores the letter case of the key.
DictGetIgnoreCase(dict, key, default) ==
    IF \E item \in dict : item.key = StrLower(key)
    THEN (CHOOSE item \in dict : item.key = StrLower(key)).value
    ELSE default
\* dict.get(key, default).
DictGet(dict, key, default) ==
    IF \E item \in dict : item.key = key
    THEN (CHOOSE item \in dict : item.key = key).value
    ELSE default

\* The (term, config) pairs in the order the two nested loops visit them.
RECURSIVE TaxonomyEntries(_, _)
TaxonomyEntries(keywords, c) ==
    IF c > Len(keywords) THEN <<>>
    ELSE [t \in 1 .. Len(keywords[c].terms) |->
             [term |-> keywords[c].terms[t], config |-> keywords[c]]]
         \o TaxonomyEntries(keywords, c + 1)

\* The same points for every severity.
SeverityPointsFlat(severity) == 15
\* No points for a severity that is neither high nor medium.
SeverityPointsLowZero(severity) ==
    IF severity = "high" THEN 25
    ELSE IF severity = "medium" THEN 15
    ELSE 0
\* The points one match adds to bias_score.
SeverityPoints(severity) ==
    IF severity = "high" THEN 25
    ELSE IF severity = "medium" THEN 15
    ELSE 5

RECURSIVE SumPoints(_, _)
SumPoints(terms, i) ==
    IF i > Len(terms) THEN 0
    ELSE SeverityPoints(terms[i].severity) + SumPoints(terms, i + 1)

\* min(bias_score, 100).
CapScoreNone(score) == score
CapScore(score) == IF score < 100 THEN score ELSE 100

\* The conditional expression that picks bias_level.
BiasLevelStrict(bias_score) ==
    IF bias_score > 75 THEN "CRITICAL"
    ELSE IF bias_score > 50 THEN "HIGH"
    ELSE IF bias_score > 25 THEN "MEDIUM"
    ELSE IF bias_score > 0 THEN "LOW"
    ELSE "MINIMAL"
BiasLevel(bias_score) ==
    IF bias_score >= 75 THEN "CRITICAL"
    ELSE IF bias_score >= 50 THEN "HIGH"
    ELSE IF bias_score >= 25 THEN "MEDIUM"
    ELSE IF bias_score > 0 THEN "LOW"
    ELSE "MINIMAL"

\* f"{job_title}. {job_description}"
FullText(job_title_, job_description_) == job_title_ \o <<".", " ">> \o job_description_

\* The number of offsets of text at which sub occurs.
Occurrences(text, sub) ==
    Cardinality({i \in 0 .. (Len(text) - Len(sub)) :
                    \A j \in 1 .. Len(sub) : text[i + j] = sub[j]})
RECURSIVE RepeatPerOccurrence(_, _, _)
RepeatPerOccurrence(entries, text, i) ==
    IF i > Len(entries) THEN <<>>
    ELSE [k \in 1 .. Occurrences(text, StrLower(entries[i].term)) |-> entries[i]]
         \o RepeatPerOccurrence(entries, text, i + 1)
\* A scanner that records a taxonomy entry once for each of its occurrences.
analyze_single_job_per_occurrence(keywords, repl, job_title_, job_description_, sentiment_result) ==
    LET full_text == FullText(job_title_, job_description_)
        text_lower == StrLower(full_text)
        matched == RepeatPerOccurrence(TaxonomyEntries(keywords, 1), text_lower, 1)
        detected_terms ==
            [i \in 1 .. Len(matched) |->
                [term |-> matched[i].term,
                 category |-> matched[i].config.category,
                 severity |-> matched[i].config.severity,
                 description |-> matched[i].config.description,
                 suggestion |-> DictGet(repl, matched[i].term, FALLBACK_SUGGESTION)]]
        bias_score == CapScore(SumPoints(detected_terms, 1))
    IN [job_title |-> job_title_,
        bias_detected |-> Len(detected_terms) > 0,
        bias_score |-> bias_score,
        bias_level |-> BiasLevel(bias_score),
        detected_terms |-> detected_terms,
        azure_sentiment |-> sentiment_result.sentiment,
        azure_confidence |-> [positive |-> sentiment_result.positive,
                              neutral |-> sentiment_result.neutral,
                              negative |-> sentiment_result.negative]]

\* The first offset of text at which sub occurs.
FirstOffset(text, sub) ==
    CHOOSE i \in 0 .. (Len(text) - Len(sub)) :
        /\ \A j \in 1 .. Len(sub) : text[i + j] = sub[j]
        /\ \A k \in 0 .. (i - 1) : \E j \in 1 .. Len(sub) : text[k + j] # sub[j]
\* The entries ordered by where their term first occurs in the text.
SortByOffset(entries, text) ==
    LET key(i) == FirstOffset(text, StrLower(entries[i].term)) * (Len(entries) + 1) + i
        rank(i) == Cardinality({j \in 1 .. Len(entries) : key(j) < key(i)}) + 1
    IN [k \in 1 .. Len(entries) |-> entries[CHOOSE i \in 1 .. Len(entries) : rank(i) = k]]
\* A scanner that lists the detected terms in the order of the text.
analyze_single_job_by_position(keywords, repl, job_title_, job_description_, sentiment_result) ==
    LET full_text == FullText(job_title_, job_description_)
        text_lower == StrLower(full_text)
        matched == SortByOffset(SelectSeq(TaxonomyEntries(keywords, 1),
                                          LAMBDA e : Contains(text_lower, StrLower(e.term))),
                                text_lower)
        detected_terms ==
            [i \in 1 .. Len(matched) |->
                [term |-> matched[i].term,
                 category |-> matched[i].config.category,
                 severity |-> matched[i].config.severity,
                 description |-> matched[i].config.description,
                 suggestion |-> DictGet(repl, matched[i].term, FALLBACK_SUGGESTION)]]
        bias_score == CapScore(SumPoints(detected_terms, 1))
    IN [job_title |-> job_title_,
        bias_detected |-> Len(detected_terms) > 0,
        bias_score |-> bias_score,
        bias_level |-> BiasLevel(bias_score),
        detected_terms |-> detected_terms,
        azure_sentiment |-> sentiment_result.sentiment,
        azure_confidence |-> [positive |-> sentiment_result.positive,
                              neutral |-> sentiment_result.neutral,
                              negative |-> sentiment_result.negative]]

\* The dictionary analyze_single_job returns when the sentiment call returned
\* sentiment_result.
analyze_single_job(keywords, repl, job_title_, job_description_, sentiment_result) ==
    LET full_text == FullText(job_title_, job_description_)
        text_lower == StrLower(full_text)
        matched == SelectSeq(TaxonomyEntries(keywords, 1),
                             LAMBDA e : Contains(text_lower, StrLower(e.term)))
        detected_terms ==
            [i \in 1 .. Len(matched) |->
                [term |-> matched[i].term,
                 category |-> matched[i].config.category,
                 severity |-> matched[i].config.severity,
                 description |-> matched[i].config.description,
                 suggestion |-> DictGet(repl, matched[i].term, FALLBACK_SUGGESTION)]]
        bias_score == CapScore(SumPoints(detected_terms, 1))
    IN [job_title |-> job_title_,
        bias_detected |-> Len(detected_terms) > 0,
        bias_score |-> bias_score,
        bias_level |-> BiasLevel(bias_score),
        detected_terms |-> detected_terms,
        azure_sentiment |-> sentiment_result.sentiment,
        azure_confidence |-> [positive |-> sentiment_result.positive,
                              neutral |-> sentiment_result.neutral,
                              negative |-> sentiment_result.negative]]

(***************************************************************************)
(* The inputs of the scanner.                                              *)
(***************************************************************************)
\* Longest job description, in characters.
MaxDescLen == 28
Titles == {<<"D", "e", "v">>, <<"S", "e", "n", "i", "o", "r", " ", "D", "e", "v">>}
Fragments ==
    {<<"R", "o", "c", "k", "s", "t", "a", "r">>,
     <<"y", "o", "u", "n", "g", " ", "e", "n", "e", "r", "g", "e", "t", "i", "c">>,
     <<"N", "I", "N", "J", "A", " ", "g", "u", "r", "u">>,
     <<"b", "e", "n", "e", "f", "i", "t", "s">>,
     <<"b", "o", "l", "d">>,
     <<"t", "e", "a", "m", " ", "p", "l", "a", "y", "e", "r">>,
     <<"d", "i", "g", "i", "t", "a", "l", " ", "n", "a", "t", "i", "v", "e">>}
\* What the sentiment classifier answers: the label and the three confidence
\* scores, in percent.
SentimentResults ==
    {[sentiment |-> "positive", positive |-> 90, neutral |-> 8, negative |-> 2],
     [sentiment |-> "negative", positive |-> 5, neutral |-> 15, negative |-> 80]}

(***************************************************************************)
(* The detector as a state machine.                                        *)
(***************************************************************************)
LangInit ==
    /\ lang_pc = "new"
    /\ bias_keywords = <<>>
    /\ replacements = {}
    /\ job_title = <<>>
    /\ job_description = <<>>
    /\ sentiment_request = None
    /\ lang_result = NoDict
    /\ lang_error = None

\* AzureLanguageBiasDetector(): the taxonomy and the replacement table are
\* taken from Config; the constructor raises when a credential is missing.
DetectorInit ==
    /\ lang_pc = "new"
    /\ \E keywords \in Taxonomies : bias_keywords' = keywords
    /\ replacements' = REPLACEMENTS
    /\ \E credentials \in BOOLEAN :
          IF credentials
          THEN lang_pc' = "ready" /\ lang_error' = None
          ELSE lang_pc' = "failed" /\ lang_error' = "CredentialsMissing"
    /\ UNCHANGED <<job_title, job_description, sentiment_request, lang_result>>
    /\ UNCHANGED fair_vars
    /\ UNCHANGED app_vars
    /\ UNCHANGED web_vars
    /\ UNCHANGED cli_vars

\* The caller takes the next job: a title, and an empty description so far.
NextJob ==
    /\ lang_pc = "ready"
    /\ \E t \in Titles : job_title' = t
    /\ job_description' = <<>>
    /\ sentiment_request' = None
    /\ lang_result' = NoDict
    /\ lang_error' = None
    /\ UNCHANGED <<lang_pc, bias_keywords, replacements>>
    /\ UNCHANGED fair_vars
    /\ UNCHANGED app_vars
    /\ UNCHANGED web_vars
    /\ UNCHANGED cli_vars

\* The description of the job grows by one phrase.
TypeFragment ==
    /\ lang_pc = "ready"
    /\ lang_result = NoDict /\ lang_error = None
    /\ \E f \in Fragments :
          LET text == IF job_description = <<>> THEN f ELSE job_description \o <<" ">> \o f
          IN /\ Len(text) <= MaxDescLen
             /\ job_description' = text
    /\ UNCHANGED <<lang_pc, bias_keywords, replacements, job_title, sentiment_request,
                   lang_result, lang_error>>
    /\ UNCHANGED fair_vars
    /\ UNCHANGED app_vars
    /\ UNCHANGED web_vars
    /\ UNCHANGED cli_vars

\* A detector whose call replaces the taxonomy it holds by the operator's one.
AnalyzeSingleJobStateful ==
    /\ lang_pc = "ready"
    /\ sentiment_request' = FullText(job_title, job_description)
    /\ \/ \E sentiment_result \in SentimentResults :
             /\ lang_result' = analyze_single_job(bias_keywords, replacements,
                                                  job_title, job_description, sentiment_result)
             /\ lang_error' = None
       \/ /\ lang_result' = NoDict
          /\ lang_error' = "ServiceError"
    /\ bias_keywords' = CUSTOM_KEYWORDS
    /\ UNCHANGED <<lang_pc, replacements, job_title, job_description>>
    /\ UNCHANGED fair_vars
    /\ UNCHANGED app_vars
    /\ UNCHANGED web_vars
    /\ UNCHANGED cli_vars
\* A detector that answers from the lexicon alone when the classifier fails.
AnalyzeSingleJobLocalOnly ==
    /\ lang_pc = "ready"
    /\ sentiment_request' = FullText(job_title, job_description)
    /\ \/ \E sentiment_result \in SentimentResults :
             /\ lang_result' = analyze_single_job(bias_keywords, replacements,
                                                  job_title, job_description, sentiment_result)
             /\ lang_error' = None
       \/ /\ lang_result' = analyze_single_job(bias_keywords, replacements,
                                               job_title, job_description,
                                               [sentiment |-> "unknown", positive |-> 0,
                                                neutral |-> 0, negative |-> 0])
          /\ lang_error' = None
    /\ UNCHANGED <<lang_pc, bias_keywords, replacements, job_title, job_description>>
    /\ UNCHANGED fair_vars
    /\ UNCHANGED app_vars
    /\ UNCHANGED web_vars
    /\ UNCHANGED cli_vars
\* detector.analyze_single_job(job_title, job_description): the sentiment call
\* comes first and may raise; otherwise the dictionary is returned.
AnalyzeSingleJob ==
    /\ lang_pc = "ready"
    /\ sentiment_request' = FullText(job_title, job_description)
    /\ \/ \E sentiment_result \in SentimentResults :
             /\ lang_result' = analyze_single_job(bias_keywords, replacements,
                                                  job_title, job_description, sentiment_result)
             /\ lang_error' = None
       \/ /\ lang_result' = NoDict
          /\ lang_error' = "ServiceError"
    /\ UNCHANGED <<lang_pc, bias_keywords, replacements, job_title, job_description>>
    /\ UNCHANGED fair_vars
    /\ UNCHANGED app_vars
    /\ UNCHANGED web_vars
    /\ UNCHANGED cli_vars

NextLang == DetectorInit \/ NextJob \/ TypeFragment \/ AnalyzeSingleJob

(***************************************************************************)
(* The hiring data on its way to the calculator: the Hiring Fairness       *)
(* Analysis page of the web application and the command line pipeline.     *)
(* A CSV file is the set of its column names and its rows.                 *)
(***************************************************************************)
NoFile == [exists |-> FALSE]
CsvFile(columns, rows) == [columns |-> columns, rows |-> rows]
REQUIRED_COLS == {"gender", "hired"}
VALID_GENDERS == {"male", "female", "Male", "Female"}
VALID_HIRED == {0, 1}
MIN_ROWS == 50
SAMPLE_PATH == "data/hiring_data.csv"
UPLOAD_PATH == "data/uploaded_hiring_data.csv"
DataOptions == {"Use Sample Data", "Upload CSV"}

\* The characters of each gender value.
GenderSpelling ==
    [g \in Genders |->
        CASE g = "male" -> <<"m", "a", "l", "e">>
          [] g = "female" -> <<"f", "e", "m", "a", "l", "e">>
          [] g = "other" -> <<"o", "t", "h", "e", "r">>
          [] g = "Male" -> <<"M", "a", "l", "e">>
          [] g = "Female" -> <<"F", "e", "m", "a", "l", "e">>
          [] g = "MALE" -> <<"M", "A", "L", "E">>]
\* str.lower() of a gender value.
GenderLower(g) == CHOOSE h \in Genders : GenderSpelling[h] = StrLower(GenderSpelling[g])
\* df['gender'] = df['gender'].str.lower(): every row keeps its hired value and
\* gets the lower-cased gender.
NormalizeGender(rows) ==
    [r \in RowKinds |->
        SumOver([q \in RowKinds |->
                    IF q.hired = r.hired /\ GenderLower(q.gender) = r.gender
                    THEN rows[q] ELSE 0], RowKinds)]

\* validate_hiring_csv(df): (is_valid, error_message).
validate_hiring_csv(df) ==
    LET missing_cols == REQUIRED_COLS \ df.columns
        present == {r \in RowKinds : df.rows[r] > 0}
    IN IF missing_cols # {}
       THEN [is_valid |-> FALSE, error_message |-> "Missing required columns"]
       ELSE IF \E r \in present : r.gender \notin VALID_GENDERS
       THEN [is_valid |-> FALSE,
             error_message |-> "Gender column must contain only 'male' or 'female'"]
       ELSE IF \E r \in present : r.hired \notin VALID_HIRED
       THEN [is_valid |-> FALSE, error_message |-> "Hired column must contain only 0 or 1"]
       ELSE IF RowCount(df.rows) < MIN_ROWS
       THEN [is_valid |-> FALSE,
             error_message |-> "Dataset must contain at least 50 records for statistical validity"]
       ELSE [is_valid |-> TRUE, error_message |-> None]

\* analyzer.run_analysis(): the report, as the baseline and as the fair model.
run_analysis(rows) ==
    LET baseline_fairness == compute_fairness_metrics(rows)
    IN [baseline |-> [fairness |-> baseline_fairness],
        fair |-> [fairness |-> baseline_fairness]]

\* abs(x) of a float.
F_Abs(x) == IF x.k = "num" THEN [x EXCEPT !.s = 1] ELSE x
\* print_executive_summary: the bias reduction, |baseline parity difference|
\* minus |fair parity difference|.
dp_improvement(fairness_comparison_) ==
    F_Sub(F_Abs(fairness_comparison_.baseline.fairness.demographic_parity_difference),
          F_Abs(fairness_comparison_.fair.fairness.demographic_parity_difference))

\* The files a user or an operator may have: n rows split over two gender
\* values, and variants with one more row.
FileRows(gm, gf, n) ==
    GroupTable(gm, (3 * n) \div 10, n \div 5,
               gf, n \div 5, n - (3 * n) \div 10 - 2 * (n \div 5))
WithRow(rows, kind) == [rows EXCEPT ![kind] = @ + 1]
LowerCaseRows == FileRows("male", "female", MIN_ROWS)
CsvFiles ==
    {CsvFile(REQUIRED_COLS, LowerCaseRows),
     CsvFile(REQUIRED_COLS, FileRows("Male", "Female", MIN_ROWS)),
     CsvFile(REQUIRED_COLS, FileRows("MALE", "female", MIN_ROWS)),
     CsvFile(REQUIRED_COLS, WithRow(LowerCaseRows, [gender |-> "other", hired |-> 1])),
     CsvFile(REQUIRED_COLS, WithRow(LowerCaseRows, [gender |-> "male", hired |-> 2])),
     CsvFile(REQUIRED_COLS, FileRows("male", "female", MIN_ROWS - 1)),
     CsvFile({"hired"}, LowerCaseRows),
     CsvFile({"gender"}, LowerCaseRows)}

AppInit ==
    /\ hiring_csv = NoFile
    /\ uploaded_csv = NoFile
    /\ uploader = NoFile
    /\ data_option = "Use Sample Data"
    /\ uploaded_data_path = None
    /\ fairness_results = NoDict
    /\ app_status = None
    /\ data_path = None

\* The data source section of the page for the chosen option and the file up
\* in the upload widget: what it reports, the csv_path it leaves, and whether
\* it saves the upload.
DataSource(option, up) ==
    IF option = "Upload CSV"
    THEN IF up = NoFile
         THEN [status |-> "NoData", csv_path |-> None, save |-> FALSE]
         ELSE IF ~validate_hiring_csv(up).is_valid
         THEN [status |-> "ValidationError", csv_path |-> None, save |-> FALSE]
         ELSE [status |-> "Uploaded", csv_path |-> UPLOAD_PATH, save |-> TRUE]
    ELSE IF hiring_csv = NoFile
         THEN [status |-> "SampleMissing", csv_path |-> None, save |-> FALSE]
         ELSE IF "gender" \notin hiring_csv.columns
         THEN [status |-> "SampleLoadError", csv_path |-> None, save |-> FALSE]
         ELSE IF "hired" \notin hiring_csv.columns
         THEN [status |-> "PageError", csv_path |-> None, save |-> FALSE]
         ELSE [status |-> "SampleLoaded", csv_path |-> SAMPLE_PATH, save |-> FALSE]

\* One run of the page script with the widgets as given: the data source
\* section, then the analysis section.  The analyzer is built from csv_path,
\* so it reads the file on disk.
RunPage(option, up, clicked) ==
    LET source == DataSource(option, up)
        saved == CsvFile(up.columns, NormalizeGender(up.rows))
        on_disk == IF option = "Upload CSV" THEN saved ELSE hiring_csv
    IN /\ IF source.save
          THEN uploaded_csv' = saved /\ uploaded_data_path' = UPLOAD_PATH
          ELSE UNCHANGED <<uploaded_csv, uploaded_data_path>>
       /\ IF source.csv_path # None /\ fairness_results = NoDict /\ clicked
          THEN /\ data' = on_disk.rows
               /\ data_path' = source.csv_path
               /\ \E connected \in BOOLEAN :
                     IF connected
                     THEN /\ fair_report' = compute_fairness_metrics(on_disk.rows)
                          /\ fair_pc' = "done"
                          /\ fair_error' = None
                          /\ fairness_results' = run_analysis(on_disk.rows)
                          /\ app_status' = "AnalysisCompleted"
                     ELSE /\ fair_report' = NoDict
                          /\ fair_pc' = "failed"
                          /\ fair_error' = "AzureError"
                          /\ UNCHANGED fairness_results
                          /\ app_status' = "AzureError"
          ELSE /\ UNCHANGED <<fair_vars, data_path, fairness_results>>
               /\ app_status' = IF source.csv_path # None /\ fairness_results # NoDict
                                THEN "Cached" ELSE source.status

\* data/hiring_data.csv is written: by the data generator, or by the operator
\* who brings the organisation's own table.
PlaceHiringData ==
    /\ \E f \in CsvFiles : hiring_csv' = f
    /\ UNCHANGED <<uploaded_csv, uploader, data_option, uploaded_data_path,
                   fairness_results, app_status, data_path>>
    /\ UNCHANGED fair_vars
    /\ UNCHANGED lang_vars
    /\ UNCHANGED web_vars
    /\ UNCHANGED cli_vars

\* The pages of the sidebar that the model visits; a session starts on the
\* first one.
OVERVIEW == "Overview"
FAIRNESS_PAGE == "Hiring Fairness Analysis"
JOB_PAGE == "Job Description Bias Detection"
DASHBOARD_PAGE == "Research Dashboard"

\* The user turns the radio button; an upload widget that is not shown loses
\* its file.
ChooseDataOption ==
    /\ page = FAIRNESS_PAGE
    /\ \E o \in DataOptions \ {data_option} : data_option' = o
    /\ uploader' = NoFile
    /\ RunPage(data_option', NoFile, FALSE)
    /\ UNCHANGED hiring_csv
    /\ UNCHANGED lang_vars
    /\ UNCHANGED web_vars
    /\ UNCHANGED cli_vars

\* An upload widget that drops the cached results when a new file arrives.
UploadFileInvalidating ==
    /\ page = FAIRNESS_PAGE
    /\ data_option = "Upload CSV"
    /\ \E f \in CsvFiles : uploader' = f
    /\ LET source == DataSource(data_option, uploader')
       IN /\ IF source.save
             THEN /\ uploaded_csv' = CsvFile(uploader'.columns, NormalizeGender(uploader'.rows))
                  /\ uploaded_data_path' = UPLOAD_PATH
                  /\ fairness_results' = NoDict
             ELSE UNCHANGED <<uploaded_csv, uploaded_data_path, fairness_results>>
          /\ app_status' = source.status
    /\ UNCHANGED <<hiring_csv, data_option, data_path>>
    /\ UNCHANGED fair_vars
    /\ UNCHANGED lang_vars
    /\ UNCHANGED web_vars
    /\ UNCHANGED cli_vars
\* The user puts a file into the upload widget.
UploadFile ==
    /\ page = FAIRNESS_PAGE
    /\ data_option = "Upload CSV"
    /\ \E f \in CsvFiles : uploader' = f
    /\ RunPage(data_option, uploader', FALSE)
    /\ UNCHANGED <<hiring_csv, data_option>>
    /\ UNCHANGED lang_vars
    /\ UNCHANGED web_vars
    /\ UNCHANGED cli_vars

\* The user presses "Run Azure ML Fairness Analysis"; the button is shown when
\* the data source section left a csv_path and no results are cached.
ClickRunAnalysis ==
    /\ page = FAIRNESS_PAGE
    /\ DataSource(data_option, uploader).csv_path # None
    /\ fairness_results = NoDict
    /\ RunPage(data_option, uploader, TRUE)
    /\ UNCHANGED <<hiring_csv, data_option, uploader>>
    /\ UNCHANGED lang_vars
    /\ UNCHANGED web_vars
    /\ UNCHANGED cli_vars

\* The job description page is left behind: its fields and what its last run
\* showed are gone; the session keeps the detector and the stored result.
LeaveJobPage ==
    /\ job_title' = <<>>
    /\ job_description' = <<>>
    /\ sentiment_request' = None
    /\ lang_result' = NoDict
    /\ lang_error' = None
    /\ job_status' = None
    /\ UNCHANGED <<lang_pc, bias_keywords, replacements>>
    /\ UNCHANGED <<language_detector, language_detector_error, language_results,
                   detector_constructions>>

\* The user chooses "Hiring Fairness Analysis" in the sidebar: the widgets of
\* the page come up with their defaults and the page script runs.
OpenFairnessPage ==
    /\ page # FAIRNESS_PAGE
    /\ page' = FAIRNESS_PAGE
    /\ data_option' = "Use Sample Data"
    /\ uploader' = NoFile
    /\ RunPage("Use Sample Data", NoFile, FALSE)
    /\ dashboard' = NoDict
    /\ LeaveJobPage
    /\ UNCHANGED hiring_csv
    /\ UNCHANGED cli_vars

\* What the Research Dashboard loads: nothing without cached fairness results;
\* otherwise the uploaded file when the session has uploaded_data_path, else
\* the sample file, with the gender column lower-cased in memory.
LoadDashboard ==
    LET path == IF uploaded_data_path # None THEN uploaded_data_path ELSE SAMPLE_PATH
        file == IF uploaded_data_path # None THEN uploaded_csv ELSE hiring_csv
    IN IF fairness_results = NoDict
       THEN [status |-> "NoResults", data_path |-> None, data |-> NoRows]
       ELSE IF file = NoFile
       THEN [status |-> "FileNotFound", data_path |-> path, data |-> NoRows]
       ELSE IF "gender" \notin file.columns
       THEN [status |-> "LoadError", data_path |-> path, data |-> NoRows]
       ELSE [status |-> "Loaded", data_path |-> path, data |-> NormalizeGender(file.rows)]

\* The user chooses "Research Dashboard" in the sidebar; the widgets of the
\* page left behind lose their state.
OpenDashboard ==
    /\ page # DASHBOARD_PAGE
    /\ page' = DASHBOARD_PAGE
    /\ dashboard' = LoadDashboard
    /\ data_option' = "Use Sample Data"
    /\ uploader' = NoFile
    /\ app_status' = None
    /\ LeaveJobPage
    /\ UNCHANGED <<hiring_csv, uploaded_csv, uploaded_data_path, fairness_results, data_path>>
    /\ UNCHANGED fair_vars
    /\ UNCHANGED cli_vars

\* The user reloads the application: a new session, whose state
\* init_session_state() fills with None, on the first page of the sidebar.
RefreshPage ==
    /\ page' = OVERVIEW
    /\ data_option' = "Use Sample Data"
    /\ uploader' = NoFile
    /\ uploaded_data_path' = None
    /\ fairness_results' = NoDict
    /\ app_status' = None
    /\ dashboard' = NoDict
    /\ language_detector' = None
    /\ language_detector_error' = None
    /\ language_results' = NoDict
    /\ detector_constructions' = 0
    /\ job_status' = None
    /\ lang_pc' = "new"
    /\ bias_keywords' = <<>>
    /\ replacements' = {}
    /\ job_title' = <<>>
    /\ job_description' = <<>>
    /\ sentiment_request' = None
    /\ lang_result' = NoDict
    /\ lang_error' = None
    /\ UNCHANGED <<hiring_csv, uploaded_csv, data_path>>
    /\ UNCHANGED fair_vars
    /\ UNCHANGED cli_vars

NextApp ==
    \/ PlaceHiringData
    \/ OpenFairnessPage
    \/ ChooseDataOption
    \/ UploadFile
    \/ ClickRunAnalysis
    \/ OpenDashboard
    \/ RefreshPage

\* A session of the web application before its first page is drawn.
WebInit ==
    /\ page = OVERVIEW
    /\ dashboard = NoDict
    /\ language_detector = None
    /\ language_detector_error = None
    /\ language_results = NoDict
    /\ detector_constructions = 0
    /\ job_status = None

(***************************************************************************)
(* The Job Description Bias Detection page of a session.                   *)
(***************************************************************************)
\* Most calls of AzureLanguageBiasDetector() the model follows in a session.
MaxConstructions == 3
\* str.strip() on a text whose only white space is the blank.
RECURSIVE StripLeft(_)
StripLeft(str) ==
    IF str = <<>> THEN <<>>
    ELSE IF Head(str) = " " THEN StripLeft(Tail(str)) ELSE str
RECURSIVE StripRight(_)
StripRight(str) ==
    IF str = <<>> THEN <<>>
    ELSE IF str[Len(str)] = " " THEN StripRight(SubSeq(str, 1, Len(str) - 1)) ELSE str
StrStrip(str) == StripRight(StripLeft(str))

\* What the user may have in the title and description fields.
JobInputs ==
    {[title |-> <<"D", "e", "v">>, text |-> <<" ", " ">>],
     [title |-> <<"D", "e", "v">>, text |-> <<"R", "o", "c", "k", "s", "t", "a", "r">>],
     [title |-> <<>>, text |-> <<"t", "e", "a", "m", " ", "p", "l", "a", "y", "e", "r">>]}

\* A getter that tries the constructor again after it has failed.
GetLanguageDetectorRetrying ==
    IF language_detector = None /\ detector_constructions < MaxConstructions
    THEN /\ detector_constructions' = detector_constructions + 1
         /\ bias_keywords' = BIAS_KEYWORDS
         /\ replacements' = REPLACEMENTS
         /\ \E credentials \in BOOLEAN :
               IF credentials
               THEN /\ language_detector' = "AzureLanguageBiasDetector"
                    /\ lang_pc' = "ready"
                    /\ UNCHANGED language_detector_error
               ELSE /\ language_detector_error' = "CredentialsMissing"
                    /\ lang_pc' = "failed"
                    /\ UNCHANGED language_detector
    ELSE UNCHANGED <<language_detector, language_detector_error, detector_constructions,
                     lang_pc, bias_keywords, replacements>>
\* get_language_detector(): the detector is constructed when the session has
\* neither a detector nor an error; a failure is recorded as the error.
GetLanguageDetector ==
    IF /\ language_detector = None
       /\ language_detector_error = None
       /\ detector_constructions < MaxConstructions
    THEN /\ detector_constructions' = detector_constructions + 1
         /\ bias_keywords' = BIAS_KEYWORDS
         /\ replacements' = REPLACEMENTS
         /\ \E credentials \in BOOLEAN :
               IF credentials
               THEN /\ language_detector' = "AzureLanguageBiasDetector"
                    /\ lang_pc' = "ready"
                    /\ UNCHANGED language_detector_error
               ELSE /\ language_detector_error' = "CredentialsMissing"
                    /\ lang_pc' = "failed"
                    /\ UNCHANGED language_detector
    ELSE UNCHANGED <<language_detector, language_detector_error, detector_constructions,
                     lang_pc, bias_keywords, replacements>>

\* A handler that forgets the previous result when the analysis fails.
AnalyzeButtonClearing(title, text) ==
    /\ sentiment_request' = FullText(title, text)
    /\ \/ \E sentiment_result \in SentimentResults :
             /\ lang_result' = analyze_single_job(bias_keywords', replacements',
                                                  title, text, sentiment_result)
             /\ lang_error' = None
             /\ language_results' = lang_result'
             /\ job_status' = "AnalysisCompleted"
       \/ /\ lang_result' = NoDict
          /\ lang_error' = "ServiceError"
          /\ language_results' = NoDict
          /\ job_status' = "AnalysisFailed"
\* The button "Analyze with Azure AI Language" was pressed: the result of
\* detector.analyze_single_job is stored in the session; an exception stops
\* the run before the assignment.
AnalyzeButton(title, text) ==
    /\ sentiment_request' = FullText(title, text)
    /\ \/ \E sentiment_result \in SentimentResults :
             /\ lang_result' = analyze_single_job(bias_keywords', replacements',
                                                  title, text, sentiment_result)
             /\ lang_error' = None
             /\ language_results' = lang_result'
             /\ job_status' = "AnalysisCompleted"
       \/ /\ lang_result' = NoDict
          /\ lang_error' = "ServiceError"
          /\ UNCHANGED language_results
          /\ job_status' = "AnalysisFailed"

\* One run of the page script with the fields and the button as given: the
\* detector is fetched, the page stops when there is none, and the analysis
\* section follows.
RunJobPage(title, text, clicked) ==
    /\ GetLanguageDetector
    /\ job_title' = title
    /\ job_description' = text
    /\ IF language_detector' = None
       THEN /\ job_status' = "NotConfigured"
            /\ sentiment_request' = None
            /\ lang_result' = NoDict
            /\ lang_error' = language_detector_error'
            /\ UNCHANGED language_results
       ELSE IF StrStrip(text) = <<>>
       THEN /\ job_status' = "NoText"
            /\ sentiment_request' = None
            /\ lang_result' = NoDict
            /\ lang_error' = None
            /\ UNCHANGED language_results
       ELSE IF clicked
       THEN AnalyzeButton(title, text)
       ELSE /\ job_status' = "ReadyToAnalyze"
            /\ sentiment_request' = None
            /\ lang_result' = NoDict
            /\ lang_error' = None
            /\ UNCHANGED language_results

\* The user chooses "Job Description Bias Detection" in the sidebar; the
\* fields come up empty.
OpenJobPage ==
    /\ page # JOB_PAGE
    /\ page' = JOB_PAGE
    /\ RunJobPage(<<>>, <<>>, FALSE)
    /\ dashboard' = NoDict
    /\ data_option' = "Use Sample Data"
    /\ uploader' = NoFile
    /\ app_status' = None
    /\ UNCHANGED <<hiring_csv, uploaded_csv, uploaded_data_path, fairness_results, data_path>>
    /\ UNCHANGED fair_vars
    /\ UNCHANGED cli_vars

\* The user fills in the title and the description.
EnterJob ==
    /\ page = JOB_PAGE
    /\ language_detector # None
    /\ \E job \in JobInputs :
          /\ <<job.title, job.text>> # <<job_title, job_description>>
          /\ RunJobPage(job.title, job.text, FALSE)
    /\ UNCHANGED <<page, dashboard>>
    /\ UNCHANGED app_vars
    /\ UNCHANGED fair_vars
    /\ UNCHANGED cli_vars

\* The user presses "Analyze with Azure AI Language"; the button is shown when
\* there is a detector and the description is not blank.
ClickAnalyze ==
    /\ page = JOB_PAGE
    /\ language_detector # None
    /\ StrStrip(job_description) # <<>>
    /\ RunJobPage(job_title, job_description, TRUE)
    /\ UNCHANGED <<page, dashboard>>
    /\ UNCHANGED app_vars
    /\ UNCHANGED fair_vars
    /\ UNCHANGED cli_vars

\* The job description page shows again what it shows: any interaction with
\* it that changes no field (the input method radio, an expander).
RerunJobPage ==
    /\ page = JOB_PAGE
    /\ RunJobPage(job_title, job_description, FALSE)
    /\ UNCHANGED <<page, dashboard>>
    /\ UNCHANGED app_vars
    /\ UNCHANGED fair_vars
    /\ UNCHANGED cli_vars

NextSession ==
    \/ PlaceHiringData
    \/ OpenFairnessPage
    \/ ClickRunAnalysis
    \/ OpenJobPage
    \/ EnterJob
    \/ ClickAnalyze
    \/ RerunJobPage
    \/ RefreshPage

(***************************************************************************)
(* The command line pipeline, main.py.                                     *)
(***************************************************************************)
\* data/job_descriptions.json: a list of jobs.
JobsFile(jobs) == [exists |-> TRUE, jobs |-> jobs]
SampleJobs ==
    <<[title |-> <<"D", "e", "v">>,
       description |-> <<"R", "o", "c", "k", "s", "t", "a", "r">>],
      [title |-> <<"S", "e", "n", "i", "o", "r", " ", "D", "e", "v">>,
       description |-> <<"t", "e", "a", "m", " ", "p", "l", "a", "y", "e", "r">>]>>
JobFiles == {JobsFile(<<>>), JobsFile(SubSeq(SampleJobs, 1, 1)), JobsFile(SampleJobs)}

CliInit ==
    /\ cli_pc = "idle"
    /\ job_descriptions = NoFile
    /\ fairness_comparison = NoDict
    /\ cli_language_results = NoDict
    /\ visualizations = 0
    /\ exit_status = None

\* data/job_descriptions.json is written, by the data generator or by hand.
PlaceJobDescriptions ==
    /\ \E f \in JobFiles : job_descriptions' = f
    /\ UNCHANGED <<cli_pc, fairness_comparison, cli_language_results, visualizations,
                   exit_status>>
    /\ UNCHANGED fair_vars
    /\ UNCHANGED lang_vars
    /\ UNCHANGED app_vars
    /\ UNCHANGED web_vars

\* check_prerequisites(): both data files must exist; missing credentials are
\* reported only.
check_prerequisites == hiring_csv # NoFile /\ job_descriptions # NoFile

\* main() is started and runs up to the prerequisite check: it leaves with
\* exit status 1 when the check fails.
CliStart ==
    /\ cli_pc \in {"idle", "exited"}
    /\ fairness_comparison' = NoDict
    /\ cli_language_results' = NoDict
    /\ visualizations' = 0
    /\ IF check_prerequisites
       THEN cli_pc' = "checked" /\ exit_status' = None
       ELSE cli_pc' = "exited" /\ exit_status' = 1
    /\ UNCHANGED job_descriptions
    /\ UNCHANGED fair_vars
    /\ UNCHANGED lang_vars
    /\ UNCHANGED app_vars
    /\ UNCHANGED web_vars

\* run_fairness_analysis(): the analyzer is built on data/hiring_data.csv and
\* runs the analysis; any exception is caught and None returned.
CliRunFairnessAnalysis ==
    /\ cli_pc = "checked"
    /\ hiring_csv # NoFile
    /\ data' = hiring_csv.rows
    /\ data_path' = SAMPLE_PATH
    /\ \E connected \in BOOLEAN :
          IF ~connected
          THEN /\ fair_pc' = "failed" /\ fair_error' = "AzureError" /\ fair_report' = NoDict
               /\ fairness_comparison' = NoDict
          ELSE IF ~(REQUIRED_COLS \subseteq hiring_csv.columns)
          THEN /\ fair_pc' = "failed" /\ fair_error' = "KeyError" /\ fair_report' = NoDict
               /\ fairness_comparison' = NoDict
          ELSE /\ fair_pc' = "done"
               /\ fair_error' = None
               /\ fair_report' = compute_fairness_metrics(hiring_csv.rows)
               /\ fairness_comparison' = run_analysis(hiring_csv.rows)
    /\ cli_pc' = "fairness_done"
    /\ UNCHANGED <<job_descriptions, cli_language_results, visualizations, exit_status>>
    /\ UNCHANGED <<hiring_csv, uploaded_csv, uploader, data_option, uploaded_data_path,
                   fairness_results, app_status>>
    /\ UNCHANGED lang_vars
    /\ UNCHANGED web_vars

\* detector.batch_analyze(jobs) when the classifier answers sentiments[i] for
\* job i, with the summary run_language_analysis adds.
batch_analyze(keywords, repl, jobs, sentiments) ==
    LET results == [i \in 1 .. Len(jobs) |->
                       analyze_single_job(keywords, repl, jobs[i].title,
                                          jobs[i].description, sentiments[i])]
        biased == {i \in 1 .. Len(jobs) : results[i].bias_detected}
        total == SumOver([i \in 1 .. Len(jobs) |-> results[i].bias_score], 1 .. Len(jobs))
    IN [service |-> "Azure AI Language Service (Text Analytics)",
        results |-> results,
        summary |-> [total_jobs |-> Len(jobs),
                     jobs_with_bias |-> Cardinality(biased),
                     average_bias_score |->
                         IF Len(jobs) > 0
                         THEN F_Div(F_FromInt(total), F_FromInt(Len(jobs)))
                         ELSE F_Zero]]

\* run_language_analysis(): a detector is constructed, the jobs are read and
\* analysed one after the other; any exception (missing credentials, a failing
\* classifier call) is caught and None returned.
CliRunLanguageAnalysis ==
    /\ cli_pc = "fairness_done"
    /\ job_descriptions # NoFile
    /\ bias_keywords' = BIAS_KEYWORDS
    /\ replacements' = REPLACEMENTS
    /\ \/ /\ lang_pc' = "failed"
          /\ lang_error' = "CredentialsMissing"
          /\ cli_language_results' = NoDict
       \/ /\ job_descriptions.jobs # <<>>
          /\ lang_pc' = "ready"
          /\ lang_error' = "ServiceError"
          /\ cli_language_results' = NoDict
       \/ /\ lang_pc' = "ready"
          /\ lang_error' = None
          /\ \E sentiments \in [1 .. Len(job_descriptions.jobs) -> SentimentResults] :
                cli_language_results' = batch_analyze(BIAS_KEYWORDS, REPLACEMENTS,
                                                      job_descriptions.jobs, sentiments)
    /\ cli_pc' = "language_done"
    /\ UNCHANGED <<job_title, job_description, sentiment_request, lang_result>>
    /\ UNCHANGED <<job_descriptions, fairness_comparison, visualizations, exit_status>>
    /\ UNCHANGED fair_vars
    /\ UNCHANGED app_vars
    /\ UNCHANGED web_vars

\* A pipeline that draws the charts whatever the analyses returned.
CliGenerateVisualizationsAlways ==
    /\ cli_pc = "language_done"
    /\ visualizations' = visualizations + 1
    /\ cli_pc' = "visualized"
    /\ UNCHANGED <<job_descriptions, fairness_comparison, cli_language_results, exit_status>>
    /\ UNCHANGED fair_vars
    /\ UNCHANGED lang_vars
    /\ UNCHANGED app_vars
    /\ UNCHANGED web_vars
\* main(): generate_visualizations is called when both analyses returned a
\* result; what it raises it catches itself.
CliGenerateVisualizations ==
    /\ cli_pc = "language_done"
    /\ IF fairness_comparison # NoDict /\ cli_language_results # NoDict
       THEN visualizations' = visualizations + 1
       ELSE UNCHANGED visualizations
    /\ cli_pc' = "visualized"
    /\ UNCHANGED <<job_descriptions, fairness_comparison, cli_language_results, exit_status>>
    /\ UNCHANGED fair_vars
    /\ UNCHANGED lang_vars
    /\ UNCHANGED app_vars
    /\ UNCHANGED web_vars

\* main(): the executive summary and the closing texts are printed and the
\* program ends.
CliSummary ==
    /\ cli_pc = "visualized"
    /\ cli_pc' = "exited"
    /\ exit_status' = 0
    /\ UNCHANGED <<job_descriptions, fairness_comparison, cli_language_results, visualizations>>
    /\ UNCHANGED fair_vars
    /\ UNCHANGED lang_vars
    /\ UNCHANGED app_vars
    /\ UNCHANGED web_vars

NextCli ==
    \/ PlaceHiringData
    \/ PlaceJobDescriptions
    \/ CliStart
    \/ CliRunFairnessAnalysis
    \/ CliRunLanguageAnalysis
    \/ CliGenerateVisualizations
    \/ CliSummary

\* Before anything is constructed.
Init == FairInit /\ LangInit /\ AppInit /\ WebInit /\ CliInit

\* The fairness analyzer alone, and the language detector alone.
SpecFair == Init /\ [][NextFair]_vars
SpecLang == Init /\ [][NextLang]_vars
\* The Hiring Fairness Analysis page and the Research Dashboard of a session,
\* with the files on disk.
SpecApp == Init /\ [][NextApp]_vars
\* A session that visits the job description page as well.
SpecSession == Init /\ [][NextSession]_vars
\* A run of main.py after the other, with the files on disk.
SpecCli == Init /\ [][NextCli]_vars

(***************************************************************************)
(* Properties of the fairness calculator.                                  *)
(***************************************************************************)
Rows(g, h) == data[[gender |-> g, hired |-> h]]
GroupCount(g) == Rows(g, 0) + Rows(g, 1)
GroupHired(g) == Rows(g, 1)
\* hired / count of a group, rounded once to binary64.
GroupRate(g) == F_Div(F_FromInt(GroupHired(g)), F_FromInt(GroupCount(g)))
\* The sign of rate(male) - rate(female) in exact integer arithmetic.
ExactDiffSign ==
    LET d == GroupHired("male") * GroupCount("female")
             - GroupHired("female") * GroupCount("male")
    IN IF d > 0 THEN 1 ELSE IF d < 0 THEN -1 ELSE 0
BothGroupsPresent == GroupCount("male") > 0 /\ GroupCount("female") > 0
\* compute_fairness_metrics has been called and has finished.
ComputeFinished == fair_pc = "done"

\* C1: when both groups are non-empty, demographic_parity_difference is
\* male_selection_rate minus female_selection_rate with its sign (negative when
\* the female rate is higher), each rate being hired count / group count.
C1_ParityDifferenceSigned ==
    (ComputeFinished /\ BothGroupsPresent) =>
        /\ fair_report.male_selection_rate = GroupRate("male")
        /\ fair_report.female_selection_rate = GroupRate("female")
        /\ fair_report.demographic_parity_difference
              = F_Sub(GroupRate("male"), GroupRate("female"))
        /\ F_Sign(fair_report.demographic_parity_difference) = ExactDiffSign
C1_Witness ==
    /\ ComputeFinished /\ BothGroupsPresent
    /\ ExactDiffSign = -1
    /\ F_Sign(fair_report.demographic_parity_difference) = -1

\* The dataset with every male row relabelled female and vice versa.
SwapGroups(df) ==
    [r \in RowKinds |->
        IF r.gender = "male" THEN df[[gender |-> "female", hired |-> r.hired]]
        ELSE IF r.gender = "female" THEN df[[gender |-> "male", hired |-> r.hired]]
        ELSE df[r]]
BothRatesPositive == BothGroupsPresent /\ GroupHired("male") > 0 /\ GroupHired("female") > 0
F_One == F_FromInt(1)

\* C2: when both selection rates are strictly positive, eeoc_80_percent_ratio
\* is the lower rate divided by the higher one, lies in (0, 1], and the swapped
\* dataset gives the same ratio and the same passes_eeoc_test.
C2_RatioInUnitIntervalAndSymmetric ==
    (ComputeFinished /\ BothRatesPositive) =>
        LET lower == IF ExactDiffSign = 1 THEN GroupRate("female") ELSE GroupRate("male")
            higher == IF ExactDiffSign = 1 THEN GroupRate("male") ELSE GroupRate("female")
            swapped == compute_fairness_metrics(SwapGroups(data))
        IN /\ fair_report.eeoc_80_percent_ratio = F_Div(lower, higher)
           /\ F_Gt(fair_report.eeoc_80_percent_ratio, F_Zero)
           /\ F_Geq(F_One, fair_report.eeoc_80_percent_ratio)
           /\ swapped.eeoc_80_percent_ratio = fair_report.eeoc_80_percent_ratio
           /\ swapped.passes_eeoc_test = fair_report.passes_eeoc_test
C2_Witness ==
    /\ ComputeFinished /\ BothRatesPositive
    /\ ExactDiffSign = 1
    /\ F_Lt(fair_report.eeoc_80_percent_ratio, F_One)

\* The rates 4/10 and 5/10, as the smallest table that has them: 2 of 5 men
\* and 1 of 2 women hired.
BoundaryData ==
    /\ GroupHired("male") = 2 /\ GroupCount("male") = 5
    /\ GroupHired("female") = 1 /\ GroupCount("female") = 2

\* C3: passes_eeoc_test is true iff eeoc_80_percent_ratio >= 0.8, and the
\* ratio of exactly 0.8 given by the rates 4/10 and 5/10 passes.
C3_PassesIffRatioAtLeastThreshold ==
    ComputeFinished =>
        /\ fair_report.passes_eeoc_test
              <=> F_Geq(fair_report.eeoc_80_percent_ratio, EEOC_THRESHOLD)
        /\ BoundaryData =>
              /\ fair_report.eeoc_80_percent_ratio = EEOC_THRESHOLD
              /\ fair_report.passes_eeoc_test
C3_Witness ==
    /\ ComputeFinished /\ BoundaryData
    /\ fair_report.eeoc_80_percent_ratio = EEOC_THRESHOLD
    /\ fair_report.passes_eeoc_test

\* C4: if one of the two groups has no records, compute_fairness_metrics fails
\* with a division-undefined error and returns no report.
C4_EmptyGroupFails ==
    (ComputeFinished /\ ~BothGroupsPresent) =>
        /\ fair_report = NoDict
        /\ fair_error = "DivisionUndefined"

\* C5: if both groups are non-empty and nobody was hired, compute_fairness_metrics
\* fails with a division-undefined error and returns no report.
C5_BothRatesZeroFails ==
    (ComputeFinished /\ BothGroupsPresent
        /\ GroupHired("male") = 0 /\ GroupHired("female") = 0) =>
        /\ fair_report = NoDict
        /\ fair_error = "DivisionUndefined"

\* The dataset with its rows of other genders replaced by n0 not hired and n1
\* hired ones.
WithOtherRows(df, n0, n1) ==
    [r \in RowKinds |->
        IF r.gender \in {"male", "female"} THEN df[r]
        ELSE IF r.hired = 0 THEN n0 ELSE n1]

\* C6: rows whose gender is neither 'male' nor 'female' are ignored: adding or
\* removing any number of them, hired or not, leaves every field of the report
\* unchanged.
C6_OtherGendersIgnored ==
    ComputeFinished =>
        \A n0, n1 \in 0 .. MaxOtherRows :
            compute_fairness_metrics(WithOtherRows(data, n0, n1)) = fair_report
C6_Witness ==
    /\ ComputeFinished /\ BothRatesPositive
    /\ Rows("other", 1) > 0
    /\ Rows("other", 0) = 0
    /\ fair_report = compute_fairness_metrics(WithOtherRows(data, 0, 0))

\* The decimal literal num/den: the binary64 value nearest to it.
Decimal(num, den) == F_Div(F_FromInt(num), F_FromInt(den))
\* The selection rates are exactly mn/md for the men and fn/fd for the women.
RatesAre(mn, md, fn, fd) ==
    /\ BothGroupsPresent
    /\ GroupHired("male") * md = mn * GroupCount("male")
    /\ GroupHired("female") * fd = fn * GroupCount("female")
\* lo < x < hi.
F_Between(lo, x, hi) == F_Lt(lo, x) /\ F_Lt(x, hi)

\* C16 as stated: with selection rates 0.60 and 0.50 the report has parity
\* difference 0.10, ratio 0.50/0.60 and passes_eeoc_test true; with rates 0.70
\* and 0.50 the ratio is 0.50/0.70 and passes_eeoc_test is false.
C16_WorkedExamplesExact ==
    ComputeFinished =>
        /\ RatesAre(6, 10, 5, 10) =>
              /\ fair_report.demographic_parity_difference = Decimal(10, 100)
              /\ fair_report.eeoc_80_percent_ratio = F_Div(Decimal(50, 100), Decimal(60, 100))
              /\ fair_report.passes_eeoc_test
        /\ RatesAre(7, 10, 5, 10) =>
              /\ fair_report.eeoc_80_percent_ratio = F_Div(Decimal(50, 100), Decimal(70, 100))
              /\ ~fair_report.passes_eeoc_test
\* C16, amended: with selection rates 0.60 and 0.50 the reported parity
\* difference is the binary64 difference 0.6 - 0.5, which is below the literal
\* 0.10 and within 10^-15 of it; the ratio is 0.50/0.60, between 0.8333 and
\* 0.8334, and passes_eeoc_test is true.  With rates 0.70 and 0.50 the ratio is
\* 0.50/0.70, between 0.7142 and 0.7143, and passes_eeoc_test is false.
C16_WorkedExamples ==
    ComputeFinished =>
        /\ RatesAre(6, 10, 5, 10) =>
              /\ fair_report.male_selection_rate = Decimal(60, 100)
              /\ fair_report.female_selection_rate = Decimal(50, 100)
              /\ fair_report.demographic_parity_difference
                    = F_Sub(Decimal(60, 100), Decimal(50, 100))
              /\ F_Lt(fair_report.demographic_parity_difference, Decimal(10, 100))
              /\ F_Lt(F_Sub(Decimal(10, 100), fair_report.demographic_parity_difference),
                      F_Div(Decimal(1, 10000000), F_FromInt(100000000)))
              /\ fair_report.eeoc_80_percent_ratio = F_Div(Decimal(50, 100), Decimal(60, 100))
              /\ F_Between(Decimal(8333, 10000), fair_report.eeoc_80_percent_ratio,
                           Decimal(8334, 10000))
              /\ fair_report.passes_eeoc_test
        /\ RatesAre(7, 10, 5, 10) =>
              /\ fair_report.male_selection_rate = Decimal(70, 100)
              /\ fair_report.eeoc_80_percent_ratio = F_Div(Decimal(50, 100), Decimal(70, 100))
              /\ F_Between(Decimal(7142, 10000), fair_report.eeoc_80_percent_ratio,
                           Decimal(7143, 10000))
              /\ ~fair_report.passes_eeoc_test
C16_Witness ==
    /\ ComputeFinished
    /\ RatesAre(7, 10, 5, 10)
    /\ GroupCount("male") = 10
    /\ F_Lt(fair_report.eeoc_80_percent_ratio, EEOC_THRESHOLD)
    /\ ~fair_report.passes_eeoc_test

\* C29: in every report run_analysis returns, the 'fair' metrics are the
\* 'baseline' metrics (all five fields equal), and the bias reduction computed
\* from them, |baseline parity difference| - |fair parity difference|, is 0.
C29_FairEqualsBaseline ==
    ComputeFinished =>
        LET result == run_analysis(data)
        IN /\ result.baseline.fairness = fair_report
           /\ result.fair.fairness = result.baseline.fairness
           /\ dp_improvement(result) = F_Zero

(***************************************************************************)
(* Properties of the bias lexicon scanner.                                 *)
(***************************************************************************)
\* analyze_single_job has returned a dictionary for the job at hand.
LangReturned == lang_result # NoDict
\* The taxonomy entries (category index, term index) whose lower-cased term
\* occurs in the lower-cased text of the job at hand.
MatchingEntries ==
    {m \in UNION {{<<c, t>> : t \in 1 .. Len(bias_keywords[c].terms)} :
                     c \in 1 .. Len(bias_keywords)} :
        Contains(StrLower(FullText(job_title, job_description)),
                 StrLower(bias_keywords[m[1]].terms[m[2]]))}
MatchesOfSeverity(severities) ==
    Cardinality({m \in MatchingEntries : bias_keywords[m[1]].severity \in severities})
\* The sum of the points the code gives to the matching entries.
RawPoints ==
    25 * MatchesOfSeverity({"high"}) + 15 * MatchesOfSeverity({"medium"})
    + 5 * (Cardinality(MatchingEntries) - MatchesOfSeverity({"high", "medium"}))
Min(a, b) == IF a < b THEN a ELSE b

\* C7: bias_score equals min(100, sum of the points of all matching taxonomy
\* entries), so it is always in 0..100; five high-severity matches (125 raw
\* points) give exactly 100.
C7_ScoreIsCappedSum ==
    LangReturned =>
        /\ lang_result.bias_score = Min(100, RawPoints)
        /\ lang_result.bias_score \in 0 .. 100
C7_Witness ==
    /\ LangReturned
    /\ MatchesOfSeverity({"high"}) = 5
    /\ RawPoints = 125
    /\ lang_result.bias_score = 100

\* C8: bias_level is a function of the capped bias_score only: CRITICAL iff
\* score >= 75, HIGH iff 50 <= score < 75, MEDIUM iff 25 <= score < 50, LOW iff
\* 0 < score < 25, MINIMAL iff score = 0.
C8_LevelBands ==
    LangReturned =>
        LET score == lang_result.bias_score
            level == lang_result.bias_level
        IN /\ level = "CRITICAL" <=> score >= 75
           /\ level = "HIGH" <=> (50 <= score /\ score < 75)
           /\ level = "MEDIUM" <=> (25 <= score /\ score < 50)
           /\ level = "LOW" <=> (0 < score /\ score < 25)
           /\ level = "MINIMAL" <=> score = 0
C8_Witness ==
    /\ LangReturned
    /\ lang_result.bias_score = 25
    /\ lang_result.bias_level = "MEDIUM"

\* C9: each matching entry adds 25 for 'high', 15 for 'medium' and 5 for 'low',
\* summed before the cap, and no other severity value contributes points.
C9_PointsBySeverityOnly ==
    LangReturned =>
        lang_result.bias_score =
            Min(100, 25 * MatchesOfSeverity({"high"}) + 15 * MatchesOfSeverity({"medium"})
                     + 5 * MatchesOfSeverity({"low"}))

\* The same string in upper case, and with the case of every letter swapped.
CharUpper ==
    [c \in Chars |-> IF IsLower(c) THEN UpperLetters[LetterIndex(LowerLetters, c)] ELSE c]
StrUpper(str) == [i \in 1 .. Len(str) |-> CharUpper[str[i]]]
StrSwapCase(str) ==
    [i \in 1 .. Len(str) |-> IF IsUpper(str[i]) THEN CharLower[str[i]] ELSE CharUpper[str[i]]]
\* The job at hand with the letter case of its title and description changed.
CaseVariants ==
    {[title |-> StrUpper(job_title), description |-> StrUpper(job_description)],
     [title |-> StrLower(job_title), description |-> StrLower(job_description)],
     [title |-> StrSwapCase(job_title), description |-> StrSwapCase(job_description)],
     [title |-> job_title, description |-> StrUpper(job_description)]}
ScanFields(result) ==
    <<result.detected_terms, result.bias_score, result.bias_level, result.bias_detected>>

\* C10: matching is case-insensitive: changing the letter case of the title
\* and the description leaves detected_terms, bias_score, bias_level and
\* bias_detected unchanged.
C10_CaseInsensitive ==
    LangReturned =>
        \A v \in CaseVariants : \A sentiment_result \in SentimentResults :
            ScanFields(analyze_single_job(bias_keywords, replacements, v.title,
                                          v.description, sentiment_result))
            = ScanFields(lang_result)
C10_Witness ==
    /\ LangReturned
    /\ lang_result.bias_detected
    /\ StrLower(job_description) # job_description
    /\ StrUpper(job_description) # job_description
    /\ \E i \in 1 .. Len(lang_result.detected_terms) :
          /\ ~Contains(job_description, lang_result.detected_terms[i].term)
          /\ Contains(StrLower(job_description), StrLower(lang_result.detected_terms[i].term))

\* The detected entries of the result at hand, and the search text.
DetectedTerms == lang_result.detected_terms
SearchText == StrLower(FullText(job_title, job_description))
\* sub is a contiguous run of characters of text.
IsSubstring(sub, text) ==
    \E i \in 1 .. (Len(text) - Len(sub) + 1) : SubSeq(text, i, i + Len(sub) - 1) = sub
\* The taxonomy entry (category c, term t) is among the detected terms.
IsDetected(c, t) ==
    \E i \in 1 .. Len(DetectedTerms) :
        /\ DetectedTerms[i].term = bias_keywords[c].terms[t]
        /\ DetectedTerms[i].category = bias_keywords[c].category
TermDetected(term) == \E i \in 1 .. Len(DetectedTerms) : DetectedTerms[i].term = term
EntryIndexes ==
    UNION {{<<c, t>> : t \in 1 .. Len(bias_keywords[c].terms)} : c \in 1 .. Len(bias_keywords)}
Word_old == <<"o", "l", "d">>
Word_bold == <<"b", "o", "l", "d">>
Word_fit == <<"f", "i", "t">>
Word_benefits == <<"b", "e", "n", "e", "f", "i", "t", "s">>
Word_native == <<"n", "a", "t", "i", "v", "e">>
Word_digital_native == <<"d", "i", "g", "i", "t", "a", "l", " ", "n", "a", "t", "i", "v", "e">>
Word_rockstar == <<"r", "o", "c", "k", "s", "t", "a", "r">>

\* C11: a second call of analyze_single_job with the same title, body, taxonomy
\* and replacement table, the classifier answering as it did the first time,
\* returns the same detected_terms (same entries, same order) and the same
\* bias_score: the first call leaves nothing behind that changes the second.
C11_SecondCallSameResult ==
    LangReturned =>
        \A sentiment_result \in SentimentResults :
            sentiment_result.sentiment = lang_result.azure_sentiment =>
                LET second == analyze_single_job(bias_keywords, replacements, job_title,
                                                 job_description, sentiment_result)
                IN /\ second.detected_terms = lang_result.detected_terms
                   /\ second.bias_score = lang_result.bias_score
C11_Witness ==
    /\ LangReturned
    /\ Len(DetectedTerms) >= 2
    /\ lang_result.bias_score >= 50
    /\ sentiment_request = FullText(job_title, job_description)

\* C12: a taxonomy entry is detected iff its lower-cased term is a contiguous
\* substring of the lower-cased text, with no word boundary: 'old' is detected
\* in 'bold', 'fit' in 'benefits', and 'digital native' makes 'native' match
\* as well.
C12_DetectedIffSubstring ==
    LangReturned =>
        /\ \A m \in EntryIndexes :
              IsDetected(m[1], m[2])
                  <=> IsSubstring(StrLower(bias_keywords[m[1]].terms[m[2]]), SearchText)
        /\ bias_keywords = BIAS_KEYWORDS =>
              /\ IsSubstring(Word_bold, SearchText) => TermDetected(Word_old)
              /\ IsSubstring(Word_benefits, SearchText) => TermDetected(Word_fit)
              /\ IsSubstring(Word_digital_native, SearchText) =>
                    TermDetected(Word_digital_native) /\ TermDetected(Word_native)
C12_Witness ==
    /\ LangReturned
    /\ bias_keywords = BIAS_KEYWORDS
    /\ IsSubstring(Word_bold, SearchText) /\ TermDetected(Word_old)
    /\ IsSubstring(Word_benefits, SearchText) /\ TermDetected(Word_fit)
    /\ ~ContainsWord(SearchText, Word_old)
    /\ ~ContainsWord(SearchText, Word_fit)

\* C13: each taxonomy entry contributes at most one element to detected_terms
\* and one severity increment however often it occurs: no entry is listed
\* twice, len(detected_terms) is at most the number of taxonomy entries, and
\* writing a matched term once more changes neither bias_score nor
\* len(detected_terms).
C13_OncePerEntry ==
    LangReturned =>
        /\ \A i, j \in 1 .. Len(DetectedTerms) :
              (DetectedTerms[i].term = DetectedTerms[j].term
               /\ DetectedTerms[i].category = DetectedTerms[j].category) => i = j
        /\ Len(DetectedTerms) <= Cardinality(EntryIndexes)
        /\ \A i \in 1 .. Len(DetectedTerms) : \A sentiment_result \in SentimentResults :
              LET again == analyze_single_job(bias_keywords, replacements, job_title,
                               job_description \o <<" ">> \o DetectedTerms[i].term,
                               sentiment_result)
              IN /\ again.bias_score = lang_result.bias_score
                 /\ Len(again.detected_terms) = Len(DetectedTerms)
C13_Witness ==
    /\ LangReturned
    /\ Occurrences(SearchText, Word_rockstar) = 2
    /\ Len(DetectedTerms) = 1
    /\ lang_result.bias_score = 25

\* C14: the suggestion of each detected term is the value the replacement table
\* holds under exactly that term as key if there is one, else 'Use a more
\* inclusive alternative'; it is never empty; category, severity and
\* description are those of the taxonomy category the term is listed in.
C14_SuggestionAndCategoryFields ==
    LangReturned =>
        \A i \in 1 .. Len(DetectedTerms) :
            LET d == DetectedTerms[i]
                hits == {item \in replacements : item.key = d.term}
            IN /\ \A item \in hits : d.suggestion = item.value
               /\ hits = {} => d.suggestion = "Use a more inclusive alternative"
               /\ d.suggestion # ""
               /\ \E c \in 1 .. Len(bias_keywords) :
                     /\ \E t \in 1 .. Len(bias_keywords[c].terms) :
                           bias_keywords[c].terms[t] = d.term
                     /\ d.category = bias_keywords[c].category
                     /\ d.severity = bias_keywords[c].severity
                     /\ d.description = bias_keywords[c].description
C14_Witness ==
    /\ LangReturned
    /\ \E i, j \in 1 .. Len(DetectedTerms) :
          /\ DetectedTerms[i].term # StrLower(DetectedTerms[i].term)
          /\ \E item \in replacements : item.key = StrLower(DetectedTerms[i].term)
          /\ DetectedTerms[i].suggestion = "Use a more inclusive alternative"
          /\ DetectedTerms[j].suggestion = "expert"

\* C15: when the call of the sentiment classifier fails, analyze_single_job
\* fails as a whole: there is no result dictionary, no result of the lexicon
\* alone and no substituted sentiment; every returned result holds the
\* sentiment label and the three confidence values one classifier call gave.
C15_ClassifierFailureFailsCall ==
    /\ lang_error = "ServiceError" => lang_result = NoDict
    /\ LangReturned =>
          /\ lang_error = None
          /\ sentiment_request = FullText(job_title, job_description)
          /\ \E sentiment_result \in SentimentResults :
                /\ lang_result.azure_sentiment = sentiment_result.sentiment
                /\ lang_result.azure_confidence.positive = sentiment_result.positive
                /\ lang_result.azure_confidence.neutral = sentiment_result.neutral
                /\ lang_result.azure_confidence.negative = sentiment_result.negative
C15_Witness ==
    /\ lang_error = "ServiceError"
    /\ lang_result = NoDict
    /\ sentiment_request = FullText(job_title, job_description)
    /\ Cardinality(MatchingEntries) >= 2

\* The taxonomy terms that are substrings of the search text.
SubstringTerms ==
    {bias_keywords[m[1]].terms[m[2]] : m \in
        {e \in EntryIndexes : IsSubstring(StrLower(bias_keywords[e[1]].terms[e[2]]), SearchText)}}

\* C17: with the shipped taxonomy and replacement table, a text whose only
\* taxonomy substring is 'rockstar' yields exactly one detected term (category
\* gender, severity high, suggestion 'skilled professional'), bias_score 25 and
\* bias_level MEDIUM.
C17_OnlyRockstar ==
    (/\ LangReturned
     /\ bias_keywords = BIAS_KEYWORDS
     /\ replacements = REPLACEMENTS
     /\ SubstringTerms = {Word_rockstar}) =>
        /\ Len(DetectedTerms) = 1
        /\ DetectedTerms[1].term = Word_rockstar
        /\ DetectedTerms[1].category = "gender"
        /\ DetectedTerms[1].severity = "high"
        /\ DetectedTerms[1].suggestion = "skilled professional"
        /\ lang_result.bias_score = 25
        /\ lang_result.bias_level = "MEDIUM"
        /\ lang_result.bias_detected
C17_Witness ==
    /\ LangReturned
    /\ bias_keywords = BIAS_KEYWORDS
    /\ replacements = REPLACEMENTS
    /\ SubstringTerms = {Word_rockstar}
    /\ Len(DetectedTerms) = 1
    /\ DetectedTerms[1].suggestion = "skilled professional"
    /\ lang_result.bias_level = "MEDIUM"

\* Every category of the taxonomy has a severity of high, medium or low.
WellFormedTaxonomy(keywords) ==
    \A c \in 1 .. Len(keywords) : keywords[c].severity \in {"high", "medium", "low"}

\* C22: a malformed taxonomy (a category with a severity other than high,
\* medium, low) is rejected when the detector is constructed: a constructed
\* detector holds a well-formed taxonomy, and analyze_single_job never returns
\* a result scored against a malformed one.
C22_MalformedTaxonomyRejected ==
    /\ lang_pc = "ready" => WellFormedTaxonomy(bias_keywords)
    /\ LangReturned => WellFormedTaxonomy(bias_keywords)

\* C23: the text handed to the sentiment classifier is the lower-cased
\* concatenation of title and body, the text the term matching runs on.
C23_ClassifierGetsNormalizedText ==
    LangReturned => sentiment_request = SearchText

\* The place (category index, term index) of a detected term in the taxonomy.
EntryPosition(d) ==
    CHOOSE m \in EntryIndexes :
        /\ bias_keywords[m[1]].category = d.category
        /\ bias_keywords[m[1]].terms[m[2]] = d.term
ComesBefore(m, n) == m[1] < n[1] \/ (m[1] = n[1] /\ m[2] < n[2])
\* The body with its phrases in another order: cut at a blank, the two parts
\* swapped.
Reorderings(text) ==
    {SubSeq(text, k + 1, Len(text)) \o <<" ">> \o SubSeq(text, 1, k - 1) :
        k \in {i \in 1 .. Len(text) : text[i] = " "}}
TermSet(result) ==
    {<<result.detected_terms[i].category, result.detected_terms[i].term>> :
        i \in 1 .. Len(result.detected_terms)}

\* C25: detected_terms is in taxonomy order (categories in the order of the
\* taxonomy, terms in their listed order), whatever the positions of the terms
\* in the text: a body with its phrases reordered, in which the same terms
\* occur, gives the same detected_terms in the same order.
C25_TaxonomyOrder ==
    LangReturned =>
        /\ \A i, j \in 1 .. Len(DetectedTerms) :
              i < j => ComesBefore(EntryPosition(DetectedTerms[i]),
                                   EntryPosition(DetectedTerms[j]))
        /\ \A body \in Reorderings(job_description) : \A sentiment_result \in SentimentResults :
              LET again == analyze_single_job(bias_keywords, replacements, job_title,
                                              body, sentiment_result)
              IN TermSet(again) = TermSet(lang_result) =>
                    again.detected_terms = DetectedTerms
C25_Witness ==
    /\ LangReturned
    /\ \E i, j \in 1 .. Len(DetectedTerms) :
          /\ i < j
          /\ FirstOffset(SearchText, StrLower(DetectedTerms[j].term))
                < FirstOffset(SearchText, StrLower(DetectedTerms[i].term))
    /\ \E body \in Reorderings(job_description) :
          /\ body # job_description
          /\ \A sentiment_result \in SentimentResults :
                TermSet(analyze_single_job(bias_keywords, replacements, job_title, body,
                                           sentiment_result)) = TermSet(lang_result)

\* C26: with the shipped taxonomy the four indicators of a result agree:
\* bias_detected iff detected_terms is non-empty iff bias_score > 0 iff
\* bias_level is not MINIMAL; and bias_score is a multiple of 5.
C26_IndicatorsAgree ==
    (LangReturned /\ bias_keywords = BIAS_KEYWORDS) =>
        /\ lang_result.bias_detected <=> Len(DetectedTerms) > 0
        /\ Len(DetectedTerms) > 0 <=> lang_result.bias_score > 0
        /\ lang_result.bias_score > 0 <=> lang_result.bias_level # "MINIMAL"
        /\ lang_result.bias_score % 5 = 0
C26_Witness ==
    /\ LangReturned
    /\ bias_keywords = BIAS_KEYWORDS
    /\ Len(DetectedTerms) = 1
    /\ DetectedTerms[1].severity = "low"
    /\ lang_result.bias_score = 5
    /\ lang_result.bias_level = "LOW"
    /\ lang_result.bias_detected

(***************************************************************************)
(* Properties of the paths to the calculator.                              *)
(***************************************************************************)
\* An analyzer built by the page or by the pipeline has computed its report
\* from the table it read.
PathComputed == data_path # None /\ fair_pc = "done"
\* A file is being offered to the upload branch of the page.
UploadOffered == data_option = "Upload CSV" /\ uploader # NoFile
\* A gender value is 'male' or 'female' in some letter case.
IsCaseVariant(g) == GenderLower(g) \in {"male", "female"}
\* The kinds of row a table has.
PresentKinds(rows) == {r \in RowKinds : rows[r] > 0}

\* C18: on every path to a fairness computation (uploaded CSV, sample data of
\* the page, command line pipeline) the gender values are lower-cased before the
\* calculator partitions the rows: the table it reads holds lower-case values
\* only, and a row with gender 'Male' or 'Female' is counted in its group.
C18_NormalizedBeforePartition ==
    PathComputed =>
        /\ data = NormalizeGender(data)
        /\ fair_report = compute_fairness_metrics(NormalizeGender(data))

\* C19: a dataset that fails boundary validation (a required column missing,
\* a gender value outside the allowed set, a hired value outside {0, 1}, fewer
\* than 50 rows) never reaches the calculator on any path, and a rejected
\* upload is neither saved nor recorded in uploaded_data_path.
C19_InvalidNeverComputed ==
    /\ PathComputed => validate_hiring_csv(CsvFile(REQUIRED_COLS, data)).is_valid
    /\ (fair_pc = "failed" /\ data_path # None) => fair_error # "KeyError"
    /\ uploaded_csv # NoFile => validate_hiring_csv(uploaded_csv).is_valid
    /\ uploaded_data_path # None => uploaded_csv # NoFile
    /\ (UploadOffered /\ ~validate_hiring_csv(uploader).is_valid) =>
          app_status = "ValidationError"

\* C20: validate_hiring_csv takes the gender values case-insensitively: a
\* table with both columns, hired values 0 or 1 and at least 50 rows is
\* accepted iff each of its gender values is 'male' or 'female' in some letter
\* case (such as 'MALE').
C20_ValidationCaseInsensitive ==
    (/\ UploadOffered
     /\ REQUIRED_COLS \subseteq uploader.columns
     /\ \A r \in PresentKinds(uploader.rows) : r.hired \in {0, 1}
     /\ RowCount(uploader.rows) >= 50) =>
        /\ validate_hiring_csv(uploader).is_valid
              <=> \A r \in PresentKinds(uploader.rows) : IsCaseVariant(r.gender)
        /\ app_status = "ValidationError"
              <=> \E r \in PresentKinds(uploader.rows) : ~IsCaseVariant(r.gender)

\* The step is one of the session that has cached fairness results and is no
\* session reset.
CachedSessionStep == fairness_results # NoDict /\ ~RefreshPage

\* C24: once fairness_results is set, no later action of the user in the
\* session (changing page, switching the data source, uploading another CSV)
\* runs the analysis again or changes fairness_results; only a session reset
\* ends this.
C24_CachedResultsFrozen ==
    [][CachedSessionStep =>
          /\ fairness_results' = fairness_results
          /\ UNCHANGED <<fair_pc, data, fair_report, fair_error, data_path>>]_vars
\* Results are cached while the page shows a valid upload that the analysis
\* would report differently.
C24_Witness ==
    /\ fairness_results # NoDict
    /\ app_status = "Cached"
    /\ UploadOffered
    /\ validate_hiring_csv(uploader).is_valid
    /\ run_analysis(NormalizeGender(uploader.rows)) # fairness_results

\* C27: the dataset the Research Dashboard loads is the dataset the cached
\* fairness_results were computed on: the file it reads is the file the
\* analyzer of the session was given.
C27_DashboardLoadsAnalysedData ==
    dashboard # NoDict =>
        (dashboard.status = "Loaded" => dashboard.data_path = data_path)

(***************************************************************************)
(* Properties of the job description page of a session.                    *)
(***************************************************************************)
\* The detector of the session is Uninitialized, Ready or Failed.
DetectorUninitialized == language_detector = None /\ language_detector_error = None
DetectorReady == language_detector # None /\ language_detector_error = None
DetectorFailed == language_detector = None /\ language_detector_error # None

\* C21: the detector of a session goes from Uninitialized to Ready or to
\* Failed and stays there: the constructor is called at most once, only from
\* Uninitialized; after a failure later calls of get_language_detector return
\* None without constructing again, a Ready detector is reused, and
\* language_detector and language_detector_error are never both set.
C21_DetectorConstructedOnce ==
    [][/\ (DetectorUninitialized \/ DetectorReady \/ DetectorFailed)'
       /\ detector_constructions' <= 1
       /\ detector_constructions' # detector_constructions =>
             \/ RefreshPage
             \/ /\ DetectorUninitialized
                /\ detector_constructions' = detector_constructions + 1
                /\ (DetectorReady \/ DetectorFailed)'
       /\ (~DetectorUninitialized /\ ~RefreshPage) =>
             UNCHANGED <<language_detector, language_detector_error,
                         detector_constructions>>
       /\ (DetectorFailed /\ ~RefreshPage) => job_status' \in {None, "NotConfigured"}]_vars
\* The page reports the missing detector after its one construction failed.
C21_Witness ==
    /\ page = JOB_PAGE
    /\ DetectorFailed
    /\ detector_constructions = 1
    /\ job_status = "NotConfigured"
    /\ fairness_results # NoDict

\* C30: a failed analysis leaves the cached results as they were: when the
\* fairness analysis raises, fairness_results stays None and the button is
\* offered again; when the language analysis raises, language_results keeps
\* its previous value, and only a completed analysis replaces it.
C30_FailureKeepsResults ==
    [][/\ (ClickRunAnalysis /\ fair_pc' = "failed") =>
             /\ fairness_results' = NoDict
             /\ page' = FAIRNESS_PAGE
             /\ (DataSource(data_option, uploader).csv_path # None)'
       /\ job_status' = "AnalysisFailed" => language_results' = language_results
       /\ language_results' # language_results =>
             \/ RefreshPage
             \/ /\ job_status' = "AnalysisCompleted"
                /\ lang_result' # NoDict
                /\ language_results' = lang_result']_vars
\* An analysis has failed in a session that holds the result of an earlier one.
C30_Witness ==
    /\ job_status = "AnalysisFailed"
    /\ lang_error = "ServiceError"
    /\ language_results # NoDict
    /\ fair_error = "AzureError"
    /\ fairness_results = NoDict

(***************************************************************************)
(* Properties of the command line pipeline.                                *)
(***************************************************************************)
\* The order of the steps of main().
CliOrder ==
    {<<"idle", "checked">>, <<"idle", "exited">>, <<"exited", "checked">>,
     <<"exited", "exited">>, <<"checked", "fairness_done">>,
     <<"fairness_done", "language_done">>, <<"language_done", "visualized">>,
     <<"visualized", "exited">>}

\* C28: main() runs the prerequisite check, the fairness analysis, the
\* language analysis, the visualization and the summary in this order; with a
\* data file missing it leaves with exit status 1 before any analysis; an
\* analysis that fails returns None and the run goes on; and
\* generate_visualizations is called only when both analyses returned a result.
C28_PipelineOrder ==
    [][/\ cli_pc' # cli_pc => <<cli_pc, cli_pc'>> \in CliOrder
       /\ (cli_pc \in {"idle", "exited"} /\ <<cli_pc, exit_status>>' # <<cli_pc, exit_status>>) =>
             IF check_prerequisites
             THEN cli_pc' = "checked" /\ exit_status' = None
             ELSE cli_pc' = "exited" /\ exit_status' = 1
       /\ <<fair_pc, data, fair_report, fair_error, fairness_comparison>>'
             # <<fair_pc, data, fair_report, fair_error, fairness_comparison>> =>
             \/ cli_pc' = "fairness_done"
             \/ cli_pc \in {"idle", "exited"} /\ fairness_comparison' = NoDict
                   /\ UNCHANGED <<fair_pc, data, fair_report, fair_error>>
       /\ cli_language_results' # cli_language_results =>
             \/ cli_pc' = "language_done"
             \/ cli_pc \in {"idle", "exited"} /\ cli_language_results' = NoDict
       /\ cli_pc' = "fairness_done" =>
             /\ exit_status' = None
             /\ fairness_comparison' = NoDict <=> fair_pc' = "failed"
       /\ cli_pc' = "language_done" =>
             /\ exit_status' = None
             /\ cli_language_results' = NoDict <=> lang_error' # None
       /\ visualizations' # visualizations =>
             \/ cli_pc \in {"idle", "exited"} /\ visualizations' = 0
             \/ /\ cli_pc = "language_done"
                /\ visualizations' = visualizations + 1
                /\ fairness_comparison # NoDict
                /\ cli_language_results # NoDict
       /\ (cli_pc = "language_done" /\ cli_pc' = "visualized"
              /\ fairness_comparison # NoDict /\ cli_language_results # NoDict) =>
             visualizations' = 1
       /\ (cli_pc = "visualized" /\ cli_pc' = "exited") => exit_status' = 0]_vars
\* A run has ended regularly although its fairness analysis had failed, and
\* without drawing the charts.
C28_Witness ==
    /\ cli_pc = "exited"
    /\ exit_status = 0
    /\ fairness_comparison = NoDict
    /\ fair_pc = "failed"
    /\ cli_language_results # NoDict
    /\ visualizations = 0
====
